---- MODULE Spec2Model ----
(***************************************************************************)
(* A model of the analysis core of the type checker: the plugin hook       *)
(* chain (mypy/plugin.py), the named-tuple analyser                        *)
(* (mypy/semanal_namedtuple.py), the dataclass transform                   *)
(* (mypy/plugins/dataclasses.py), the AST stripper                         *)
(* (mypy/server/aststrip.py), the type variable scopes                     *)
(* (mypy/tvar_scope.py) and the singledispatch plugin                      *)
(* (mypy/plugins/singledispatch.py).                                       *)
(*                                                                         *)
(* Each subsystem has its own specification (SpecPlugin, SpecNT, SpecDC,   *)
(* SpecStrip, SpecTV, SpecSD, and SpecNB for the bodies of class-style     *)
(* named tuples) over the shared variables; the variables of the other     *)
(* subsystems stay at their idle value.                                    *)
(*                                                                         *)
(* Python strings that the code inspects character by character (type and  *)
(* field names) are sequences of one-character strings; Optional[str] is a *)
(* record [some, val].                                                     *)
(***************************************************************************)
EXTENDS Integers, Sequences, FiniteSets, TLC

VARIABLES
    \* ---- plugin chain (mypy/plugin.py)
    plugins,      \* the list of plugins handed to ChainedPlugin, in registration order
    chained,      \* TRUE once ChainedPlugin.__init__ has stored the list
    lookup,       \* the last get_*_hook call on the chain and what it returned
    \* ---- named-tuple analysis (mypy/semanal_namedtuple.py)
    defn,         \* the definition analysed: the call, the assigned name, the scope kind
    callAnalyzed,     \* call.analyzed
    readyTypes,   \* the forward-declared types that are complete by now
    globalNames,  \* the module-level symbol table
    localNames,   \* the symbol table of the enclosing function, for a local definition
    errors,       \* the diagnostics reported so far, in order
    patchCount,      \* the number of scheduled fallback patches
    ntResult,     \* what the last check_namedtuple call returned
    passes,       \* the number of analysis passes run over the definition
    everDeferred, \* TRUE once a pass has deferred the definition
    \* ---- dataclass transform (mypy/plugins/dataclasses.py)
    infos,        \* the classes of the program: ClassDef and TypeInfo of each
    dcErrors,     \* the diagnostics the transform has reported so far, in order
    lastTransform,  \* the last transform call: its class, result and attributes
    transforms,   \* the number of transform calls so far
    \* ---- AST stripping (mypy/server/aststrip.py)
    tree,         \* the AST of the file: node id -> fields
    fileNames,    \* the module's symbol table
    typeInfos,    \* the TypeInfo of each class
    pending,      \* the targets stripped and not analysed again yet, in order
    analysed,     \* the first pending target, the AST and the tables before its strip,
                  \* and whether every analysis so far ran with nothing else stripped
    stripError,   \* the exception that ended a strip_target call
    stripCount,   \* the number of strip_target calls so far
    \* ---- type variable scopes (mypy/tvar_scope.py)
    tvScope,      \* the TypeVarScope in use: its bindings, parent and two counters
    tvBound,      \* the last bind call: its kind and the TypeVarDef it returned
    tvBinds,      \* the number of bind calls so far
    \* ---- singledispatch plugin (mypy/plugins/singledispatch.py)
    sdSites,      \* the singledispatch(func) calls so far: func and the Instance returned
    sdMetadata,   \* TypeInfo fullname -> the 'singledispatch' entry of its metadata
    sdCall,       \* the last hook call: the hook, the call site and what it returned
    sdErrors,     \* the diagnostics the hooks have reported so far, in order
    sdSteps,      \* the number of hook calls so far
    \* ---- class-style named tuple bodies (save_namedtuple_body)
    nbNames,      \* named_tuple_info.names
    nbSaved,      \* nt_names: the table build_namedtuple_typeinfo produced, set aside
    nbErrors,     \* the diagnostics save_namedtuple_body has reported, in order
    nbPhase       \* "built", "body" (inside the with block) or "restored"

pluginVars == <<plugins, chained, lookup>>

ntVars == <<defn, callAnalyzed, readyTypes, globalNames, localNames, errors, patchCount,
            ntResult, passes, everDeferred>>

dcVars == <<infos, dcErrors, lastTransform, transforms>>

stripVars == <<tree, fileNames, typeInfos, pending, analysed, stripError, stripCount>>

tvVars == <<tvScope, tvBound, tvBinds>>

sdVars == <<sdSites, sdMetadata, sdCall, sdErrors, sdSteps>>
nbVars == <<nbNames, nbSaved, nbErrors, nbPhase>>

\* What the actions of one subsystem leave alone.
nonPluginVars == <<ntVars, dcVars, stripVars, tvVars, sdVars, nbVars>>
nonNTVars == <<pluginVars, dcVars, stripVars, tvVars, sdVars, nbVars>>
nonDCVars == <<pluginVars, ntVars, stripVars, tvVars, sdVars, nbVars>>
nonStripVars == <<pluginVars, ntVars, dcVars, tvVars, sdVars, nbVars>>
nonTVVars == <<pluginVars, ntVars, dcVars, stripVars, sdVars, nbVars>>
nonSDVars == <<pluginVars, ntVars, dcVars, stripVars, tvVars, nbVars>>
nonNBVars == <<pluginVars, ntVars, dcVars, stripVars, tvVars, sdVars>>

vars == <<plugins, chained, lookup,
          defn, callAnalyzed, readyTypes, globalNames, localNames, errors, patchCount,
          ntResult, passes, everDeferred,
          infos, dcErrors, lastTransform, transforms,
          tree, fileNames, typeInfos, pending, analysed, stripError, stripCount,
          tvScope, tvBound, tvBinds,
          sdSites, sdMetadata, sdCall, sdErrors, sdSteps,
          nbNames, nbSaved, nbErrors, nbPhase>>

----------------------------------------------------------------------------
(* Generic helpers *)

Range(s) == {s[i] : i \in 1..Len(s)}

Min(S) == CHOOSE x \in S : \A y \in S : x <= y

SeqsUpTo(S, n) == UNION {[1..k -> S] : k \in 0..n}

----------------------------------------------------------------------------
(* Plugin hook dispatch: mypy/plugin.py *)

MaxPlugins == 3

HookKinds ==
    {"type_analyze", "function", "method_signature", "method",
     "attribute", "class_decorator", "metaclass", "base_class"}

\* Fully-qualified names looked up in the model.
Fullnames == {"contextlib.contextmanager", "typing.Mapping.get", "m.f"}

\* Python's None for an Optional hook.
NoHook == [owner |-> 0, kind |-> "None", fullname |-> "None"]

\* The callback object a plugin returns: identified by the plugin that owns it.
Hook(owner, kind, fullname) == [owner |-> owner, kind |-> kind, fullname |-> fullname]

\* Plugin: every get_*_hook of the base class returns None.
BasePluginTable == [k \in HookKinds |-> {}]

\* DefaultPlugin: the names it answers, per hook kind (among Fullnames).
DefaultPluginTable ==
    [k \in HookKinds |->
        CASE k = "function" -> {"contextlib.contextmanager"}
          [] k = "method_signature" -> {"typing.Mapping.get"}
          [] k = "method" -> {"typing.Mapping.get"}
          [] OTHER -> {}]

\* User plugins: subclasses of Plugin overriding some get_*_hook methods.
UserPluginTables ==
    {[k \in HookKinds |-> IF k \in ks THEN ns ELSE {}] :
        ks \in {HookKinds, {"function", "method"}},
        ns \in {{"m.f"}, {"typing.Mapping.get", "m.f"}}}

PluginTables == UserPluginTables \cup {BasePluginTable, DefaultPluginTable}

\* plugin.get_<kind>_hook(fullname) of one plugin of the chain.
PluginGetHook(plugin, kind, fullname) ==
    IF fullname \in plugin.table[kind]
    THEN Hook(plugin.id, kind, fullname)
    ELSE NoHook

\* Mutant of _find_hook: keeps looking after a match, so the last match wins.
RECURSIVE FindHookLastWins(_, _, _)
FindHookLastWins(ps, kind, fullname) ==
    IF ps = <<>> THEN NoHook
    ELSE LET rest == FindHookLastWins(Tail(ps), kind, fullname)
         IN  IF rest /= NoHook THEN rest ELSE PluginGetHook(Head(ps), kind, fullname)

\* ChainedPlugin._find_hook: the first plugin, in list order, with a hook.
RECURSIVE FindHook(_, _, _)
FindHook(ps, kind, fullname) ==
    IF ps = <<>> THEN NoHook
    ELSE LET hook == PluginGetHook(Head(ps), kind, fullname)
         IN  IF hook /= NoHook THEN hook ELSE FindHook(Tail(ps), kind, fullname)

NoLookup == [kind |-> "None", fullname |-> "None", result |-> NoHook]

PluginInit ==
    /\ plugins = <<>>
    /\ chained = FALSE
    /\ lookup = NoLookup

\* The caller builds the plugin list, one plugin at a time.
RegisterPlugin ==
    /\ ~chained
    /\ Len(plugins) < MaxPlugins
    /\ \E t \in PluginTables :
          plugins' = Append(plugins, [id |-> Len(plugins) + 1, table |-> t])
    /\ UNCHANGED <<chained, lookup, nonPluginVars>>

\* ChainedPlugin.__init__: self._plugins = plugins.
ChainedPluginInit ==
    /\ ~chained
    /\ chained' = TRUE
    /\ UNCHANGED <<plugins, lookup, nonPluginVars>>

\* What a get_<kind>_hook call on the chain leaves in lookup.
Lookup(kind, fullname) ==
    [kind |-> kind, fullname |-> fullname, result |-> FindHook(plugins, kind, fullname)]

\* ChainedPlugin.get_type_analyze_hook
get_type_analyze_hook ==
    /\ chained
    /\ \E fullname \in Fullnames : lookup' = Lookup("type_analyze", fullname)
    /\ UNCHANGED <<plugins, chained, nonPluginVars>>

\* ChainedPlugin.get_function_hook
get_function_hook ==
    /\ chained
    /\ \E fullname \in Fullnames : lookup' = Lookup("function", fullname)
    /\ UNCHANGED <<plugins, chained, nonPluginVars>>

\* ChainedPlugin.get_method_signature_hook
get_method_signature_hook ==
    /\ chained
    /\ \E fullname \in Fullnames : lookup' = Lookup("method_signature", fullname)
    /\ UNCHANGED <<plugins, chained, nonPluginVars>>

\* ChainedPlugin.get_method_hook
get_method_hook ==
    /\ chained
    /\ \E fullname \in Fullnames : lookup' = Lookup("method", fullname)
    /\ UNCHANGED <<plugins, chained, nonPluginVars>>

\* ChainedPlugin.get_attribute_hook
get_attribute_hook ==
    /\ chained
    /\ \E fullname \in Fullnames : lookup' = Lookup("attribute", fullname)
    /\ UNCHANGED <<plugins, chained, nonPluginVars>>

\* ChainedPlugin.get_class_decorator_hook
get_class_decorator_hook ==
    /\ chained
    /\ \E fullname \in Fullnames : lookup' = Lookup("class_decorator", fullname)
    /\ UNCHANGED <<plugins, chained, nonPluginVars>>

\* ChainedPlugin.get_metaclass_hook
get_metaclass_hook ==
    /\ chained
    /\ \E fullname \in Fullnames : lookup' = Lookup("metaclass", fullname)
    /\ UNCHANGED <<plugins, chained, nonPluginVars>>

\* ChainedPlugin.get_base_class_hook
get_base_class_hook ==
    /\ chained
    /\ \E fullname \in Fullnames : lookup' = Lookup("base_class", fullname)
    /\ UNCHANGED <<plugins, chained, nonPluginVars>>

PluginNext ==
    \/ RegisterPlugin
    \/ ChainedPluginInit
    \/ get_type_analyze_hook
    \/ get_function_hook
    \/ get_method_signature_hook
    \/ get_method_hook
    \/ get_attribute_hook
    \/ get_class_decorator_hook
    \/ get_metaclass_hook
    \/ get_base_class_hook


----------------------------------------------------------------------------
(* Python strings and expression nodes *)

Digits == {"0", "1", "2", "3", "4", "5", "6", "7", "8", "9"}

Letters ==
    {"a", "b", "c", "d", "e", "f", "g", "h", "i", "j", "k", "l", "m",
     "n", "o", "p", "q", "r", "s", "t", "u", "v", "w", "x", "y", "z",
     "A", "B", "C", "D", "E", "F", "G", "H", "I", "J", "K", "L", "M",
     "N", "O", "P", "Q", "R", "S", "T", "U", "V", "W", "X", "Y", "Z"}

\* str.isidentifier(), on ASCII strings.
isidentifier(name) ==
    /\ Len(name) > 0
    /\ name[1] \in Letters \cup {"_"}
    /\ \A i \in 2..Len(name) : name[i] \in Letters \cup Digits \cup {"_"}

\* keyword.iskeyword(): the keywords of at most three letters.
Keywords ==
    {<<"i", "f">>, <<"i", "n">>, <<"i", "s">>, <<"o", "r">>, <<"a", "s">>,
     <<"a", "n", "d">>, <<"d", "e", "f">>, <<"d", "e", "l">>, <<"f", "o", "r">>,
     <<"n", "o", "t">>, <<"t", "r", "y">>}

iskeyword(name) == name \in Keywords

\* name.startswith('_')
startswith_underscore(name) == Len(name) > 0 /\ name[1] = "_"

DigitChar(d) ==
    CASE d = 0 -> "0" [] d = 1 -> "1" [] d = 2 -> "2" [] d = 3 -> "3" [] d = 4 -> "4"
      [] d = 5 -> "5" [] d = 6 -> "6" [] d = 7 -> "7" [] d = 8 -> "8" [] d = 9 -> "9"

\* str(n) for n >= 0.
RECURSIVE IntToStr(_)
IntToStr(n) ==
    IF n < 10 THEN <<DigitChar(n)>> ELSE IntToStr(n \div 10) \o <<DigitChar(n % 10)>>

\* str(n) as a string.
RECURSIVE IntToString(_)
IntToString(n) ==
    IF n < 10 THEN DigitChar(n) ELSE IntToString(n \div 10) \o DigitChar(n % 10)

RECURSIVE Concat(_)
Concat(ss) == IF ss = <<>> THEN <<>> ELSE Head(ss) \o Concat(Tail(ss))

\* Optional[str]
NoneStr == [some |-> FALSE, val |-> <<>>]
SomeStr(s) == [some |-> TRUE, val |-> s]

\* Names the analyser compares argument names with.
S_typename == <<"t", "y", "p", "e", "n", "a", "m", "e">>
S_fields == <<"f", "i", "e", "l", "d", "s">>
S_field_names == <<"f", "i", "e", "l", "d", "_", "n", "a", "m", "e", "s">>
S_defaults == <<"d", "e", "f", "a", "u", "l", "t", "s">>
S_rename == <<"r", "e", "n", "a", "m", "e">>

\* Expression nodes.
StrExpr(value) == [node |-> "StrExpr", value |-> value]
NameExpr(name) == [node |-> "NameExpr", name |-> name]
IntExpr(value) == [node |-> "IntExpr", int |-> value]
ListExpr(items) == [node |-> "ListExpr", items |-> items]
TupleExpr(items) == [node |-> "TupleExpr", items |-> items]

\* ArgKind.is_named() and ArgKind.is_positional(), star=False.
is_named(kind) == kind \in {"ARG_NAMED", "ARG_NAMED_OPT"}
is_positional(kind) == kind \in {"ARG_POS", "ARG_OPT"}

----------------------------------------------------------------------------
(* Named tuples: mypy/semanal_namedtuple.py *)

\* A diagnostic: the message and the name formatted into it.
Diag(msg, name) == [msg |-> msg, name |-> name]

\* NamedTupleStructure: None, or (names, types, defaults, typename, ok); with
\* the diagnostics reported on the way.
StructNone(errs) ==
    [none |-> TRUE, items |-> <<>>, types |-> <<>>, defaults |-> <<>>,
     typename |-> <<>>, ok |-> FALSE, errs |-> errs]
Struct(items, types, defaults, typename, ok, errs) ==
    [none |-> FALSE, items |-> items, types |-> types, defaults |-> defaults,
     typename |-> typename, ok |-> ok, errs |-> errs]

\* Mutant of the rename loop: the placeholders count the fields from 1.
RenamedFieldsFromOne(field_names) ==
    [i \in 1..Len(field_names) |->
        LET name == field_names[i] IN
        IF \/ ~isidentifier(name)
           \/ iskeyword(name)
           \/ startswith_underscore(name)
           \/ \E j \in 1..(i - 1) : field_names[j] = name
        THEN <<"_">> \o IntToStr(i)
        ELSE name]

\* The rename=True loop of _validate_fields: invalid and repeated names
\* become '_<index>' (0-based).
RenamedFields(field_names) ==
    [i \in 1..Len(field_names) |->
        LET name == field_names[i] IN
        IF \/ ~isidentifier(name)
           \/ iskeyword(name)
           \/ startswith_underscore(name)
           \/ \E j \in 1..(i - 1) : field_names[j] = name
        THEN <<"_">> \o IntToStr(i - 1)
        ELSE name]

\* First loop of _validate_fields: identifiers and keywords.
IdentifierDiags(names) ==
    Concat([i \in 1..Len(names) |->
        (IF ~isidentifier(names[i])
         THEN <<Diag("Type names and field names must be valid identifiers", names[i])>>
         ELSE <<>>)
        \o
        (IF iskeyword(names[i])
         THEN <<Diag("Type names and field names cannot be a keyword", names[i])>>
         ELSE <<>>)])

\* Mutant of the second loop: every leading underscore is reported before the
\* first duplicate.
FieldDiagsByRule(names, rename) ==
    Concat([i \in 1..Len(names) |->
        IF startswith_underscore(names[i]) /\ ~rename
        THEN <<Diag("Field names cannot start with an underscore", names[i])>>
        ELSE <<>>])
    \o
    Concat([i \in 1..Len(names) |->
        IF \E j \in 1..(i - 1) : names[j] = names[i]
        THEN <<Diag("Encountered duplicate field name", names[i])>>
        ELSE <<>>])

\* Second loop of _validate_fields: leading underscores and duplicates.
FieldDiags(names, rename) ==
    Concat([i \in 1..Len(names) |->
        (IF startswith_underscore(names[i]) /\ ~rename
         THEN <<Diag("Field names cannot start with an underscore", names[i])>>
         ELSE <<>>)
        \o
        (IF \E j \in 1..(i - 1) : names[j] = names[i]
         THEN <<Diag("Encountered duplicate field name", names[i])>>
         ELSE <<>>)])

\* Mutant of _validate_fields: stops at the first rule that fails.
validate_fields_first_error(field_names, types, defaults, typename, rename, errs) ==
    LET names == IF rename THEN RenamedFields(field_names) ELSE field_names
        e1 == IdentifierDiags(<<typename>> \o names)
        e2 == FieldDiags(names, rename)
        e3 == IF Len(defaults) > Len(names)
              THEN <<Diag("Got more default values than field names", <<>>)>>
              ELSE <<>>
        all == e1 \o e2 \o e3
    IN  IF all /= <<>>
        THEN StructNone(errs \o <<Head(all)>>)
        ELSE Struct(names, types, defaults, typename, TRUE, errs)

\* NamedTupleCallAnalyzer._validate_fields
validate_fields(field_names, types, defaults, typename, rename, errs) ==
    LET names == IF rename THEN RenamedFields(field_names) ELSE field_names
        e1 == IdentifierDiags(<<typename>> \o names)
        e2 == FieldDiags(names, rename)
        e3 == IF Len(defaults) > Len(names)
              THEN <<Diag("Got more default values than field names", <<>>)>>
              ELSE <<>>
        is_valid == e1 = <<>> /\ e2 = <<>> /\ e3 = <<>>
    IN  IF ~is_valid
        THEN StructNone(errs \o e1 \o e2 \o e3)
        ELSE Struct(names, types, defaults, typename, TRUE, errs)

\* Names of the members the synthesizer defines.
S__fields == <<"_", "f", "i", "e", "l", "d", "s">>
S__field_types == <<"_", "f", "i", "e", "l", "d", "_", "t", "y", "p", "e", "s">>
S__field_defaults == <<"_", "f", "i", "e", "l", "d", "_", "d", "e", "f", "a", "u", "l", "t", "s">>
S__source == <<"_", "s", "o", "u", "r", "c", "e">>
S___annotations__ == <<"_", "_", "a", "n", "n", "o", "t", "a", "t", "i", "o", "n", "s", "_", "_">>
S___doc__ == <<"_", "_", "d", "o", "c", "_", "_">>
S__replace == <<"_", "r", "e", "p", "l", "a", "c", "e">>
S___new__ == <<"_", "_", "n", "e", "w", "_", "_">>
S__asdict == <<"_", "a", "s", "d", "i", "c", "t">>
S__make == <<"_", "m", "a", "k", "e">>
S__cls == <<"_", "c", "l", "s">>
S__self == <<"_", "s", "e", "l", "f">>
S_iterable == <<"i", "t", "e", "r", "a", "b", "l", "e">>
S_new == <<"n", "e", "w">>
S_len == <<"l", "e", "n">>
S_namedtuple_at == <<"n", "a", "m", "e", "d", "t", "u", "p", "l", "e", "@">>

\* SELF_TVAR_NAME
SELF_TVAR_NAME == <<"_", "N", "T">>

\* Types.  Optional[Type] uses NoType for None.
NoType == "<None>"
AnyType(of) == [t |-> "Any", of |-> of]
Instance(name) == [t |-> "Instance", name |-> name]
UnboundType(name) == [t |-> "Unbound", name |-> name]
NoneAnalyzed == [t |-> NoType]
SelfType == [t |-> "TypeVar", tvar |-> SELF_TVAR_NAME]
TypeTypeOf(typ) == [t |-> "TypeType", item |-> typ]

\* Optional[Expression] of an argument initializer.
NoExpr == [node |-> "None"]
EllipsisExpr == [node |-> "EllipsisExpr"]

\* Optional[TypeInfo]
NoInfo == [some |-> FALSE]
SomeInfo(info) == [some |-> TRUE, val |-> info]

\* A symbol table maps names to SymbolTableNodes; assignment names[key] = sym.
EmptyTable == [k \in {} |-> NoExpr]
Put(table, key, sym) == (key :> sym) @@ table
Has(table, key) == key \in DOMAIN table

SymbolTableNode(kind, node, plugin_generated) ==
    [kind |-> kind, node |-> node, plugin_generated |-> plugin_generated]

Argument(name, typ, initializer, kind) ==
    [name |-> name, type |-> typ, initializer |-> initializer, kind |-> kind]

RECURSIVE PutAll(_, _)
PutAll(table, entries) ==
    IF entries = <<>> THEN table
    ELSE PutAll(Put(table, Head(entries)[1], Head(entries)[2]), Tail(entries))

\* Mutant of add_field: the entry is tagged as plugin generated.
add_field_generated(info_name, name, typ, is_initialized_in_class, is_property) ==
    <<name,
      SymbolTableNode("MDEF",
          [node |-> "Var", name |-> name, type |-> typ, info |-> info_name,
           is_initialized_in_class |-> is_initialized_in_class,
           is_property |-> is_property,
           fullname |-> info_name \o <<".">> \o name],
          TRUE)>>

\* add_field of build_namedtuple_typeinfo: the entry it stores under var.name.
add_field(info_name, name, typ, is_initialized_in_class, is_property) ==
    <<name,
      SymbolTableNode("MDEF",
          [node |-> "Var", name |-> name, type |-> typ, info |-> info_name,
           is_initialized_in_class |-> is_initialized_in_class,
           is_property |-> is_property,
           fullname |-> info_name \o <<".">> \o name],
          FALSE)>>

\* add_method of build_namedtuple_typeinfo: the entry it stores under funcname.
add_method(info_name, funcname, ret, args, is_classmethod, is_new, line) ==
    LET first == IF is_classmethod \/ is_new
                 THEN <<Argument(S__cls, TypeTypeOf(SelfType), NoExpr, "ARG_POS")>>
                 ELSE <<Argument(S__self, SelfType, NoExpr, "ARG_POS")>>
        all == first \o args
        func == [node |-> "FuncDef", name |-> funcname, arguments |-> all,
                 arg_types |-> [i \in 1..Len(all) |-> all[i].type],
                 arg_names |-> [i \in 1..Len(all) |-> all[i].name],
                 arg_kinds |-> [i \in 1..Len(all) |-> all[i].kind],
                 ret_type |-> ret, variables |-> <<SelfType>>,
                 info |-> info_name, is_class |-> is_classmethod,
                 is_decorated |-> is_classmethod,
                 fullname |-> info_name \o <<".">> \o funcname, line |-> line]
        node == IF is_classmethod
                THEN [node |-> "Decorator", func |-> func, line |-> line,
                      var |-> [node |-> "Var", name |-> funcname, is_classmethod |-> TRUE,
                               info |-> info_name, fullname |-> func.fullname]]
                ELSE func
    IN  <<funcname, SymbolTableNode("MDEF", node, TRUE)>>

\* default_items.get(name, None): default_items is a sequence of <<name, default>>
\* pairs in insertion order, a later pair replacing an earlier one of the same name.
RECURSIVE DefaultOf(_, _)
DefaultOf(default_items, name) ==
    IF default_items = <<>> THEN NoExpr
    ELSE LET last == default_items[Len(default_items)]
         IN  IF last[1] = name THEN last[2]
             ELSE DefaultOf(SubSeq(default_items, 1, Len(default_items) - 1), name)

\* Mutant of make_init_arg: every constructor argument is required.
make_init_arg_all_required(name, typ, default_items) ==
    Argument(name, typ, DefaultOf(default_items, name), "ARG_POS")

\* make_init_arg of build_namedtuple_typeinfo
make_init_arg(name, typ, default_items) ==
    LET default == DefaultOf(default_items, name)
        kind == IF default = NoExpr THEN "ARG_POS" ELSE "ARG_OPT"
    IN  Argument(name, typ, default, kind)

\* NamedTupleAnalyzer.build_namedtuple_typeinfo
build_namedtuple_typeinfo(name, items, types, default_items, line) ==
    LET strtype == Instance("builtins.str")
        implicit_any == AnyType("special_form")
        dictype == Instance("builtins.dict")
        ordereddictype == Instance("builtins.dict")
        fallback == Instance("builtins.tuple")
        iterable_type == Instance("typing.Iterable")
        n == IF Len(items) < Len(types) THEN Len(items) ELSE Len(types)
        fields == [i \in 1..n |-> add_field(name, items[i], types[i], FALSE, TRUE)]
        implicit ==
            << add_field(name, S__fields, [t |-> "Tuple", items |-> [i \in 1..Len(items) |-> strtype]], TRUE, FALSE),
               add_field(name, S__field_types, dictype, TRUE, FALSE),
               add_field(name, S__field_defaults, dictype, TRUE, FALSE),
               add_field(name, S__source, strtype, TRUE, FALSE),
               add_field(name, S___annotations__, ordereddictype, TRUE, FALSE),
               add_field(name, S___doc__, strtype, TRUE, FALSE) >>
        methods ==
            << add_method(name, S__replace, SelfType,
                          [i \in 1..n |-> Argument(items[i], types[i], EllipsisExpr, "ARG_NAMED_OPT")],
                          FALSE, FALSE, line),
               add_method(name, S___new__, SelfType,
                          [i \in 1..n |-> make_init_arg(items[i], types[i], default_items)],
                          FALSE, TRUE, line),
               add_method(name, S__asdict, ordereddictype, <<>>, FALSE, FALSE, line),
               add_method(name, S__make, SelfType,
                          << Argument(S_iterable, iterable_type, NoExpr, "ARG_POS"),
                             Argument(S_new, implicit_any, EllipsisExpr, "ARG_NAMED_OPT"),
                             Argument(S_len, implicit_any, EllipsisExpr, "ARG_NAMED_OPT") >>,
                          TRUE, FALSE, line) >>
        self_tvar ==
            << <<SELF_TVAR_NAME,
                 SymbolTableNode("MDEF",
                     [node |-> "TypeVarExpr", name |-> SELF_TVAR_NAME,
                      fullname |-> name \o <<".">> \o SELF_TVAR_NAME],
                     FALSE)>> >>
    IN  [name |-> name,
         is_named_tuple |-> TRUE,
         tuple_type |-> [t |-> "Tuple", items |-> types],
         line |-> line,
         metadata |-> [namedtuple |-> [fields |-> items]],
         names |-> PutAll(EmptyTable, fields \o implicit \o methods \o self_tvar)]

\* ---- the semantic analyzer interface, as the analyser uses it

\* Types that are always defined, and sibling types defined later in the module.
DefinedTypes == {"int"}
ForwardTypes == {"Sib"}

\* expr_to_unanalyzed_type: a name translates to an unbound type; any other
\* expression of the model raises TypeTranslationError (TranslationError).
TranslationError == [t |-> "TypeTranslationError"]
expr_to_unanalyzed_type(expr) ==
    IF expr.node = "NameExpr" THEN UnboundType(expr.name) ELSE TranslationError

\* api.anal_type: None while the named type is incomplete, the unbound type
\* itself when the name is not defined at all.
anal_type(typ, ready) ==
    IF typ.name \in DefinedTypes \cup ready THEN Instance(typ.name)
    ELSE IF typ.name \in ForwardTypes THEN NoneAnalyzed
    ELSE typ

\* Mutant of _analyze_type: an incomplete type is taken to be Any.
analyze_type_any_when_incomplete(type_node, ready) ==
    LET typ == expr_to_unanalyzed_type(type_node) IN
    IF typ = TranslationError THEN NoneAnalyzed
    ELSE LET analyzed == anal_type(typ, ready) IN
         IF analyzed.t = "Unbound" \/ analyzed = NoneAnalyzed
         THEN AnyType("from_error") ELSE analyzed

\* NamedTupleCallAnalyzer._analyze_type
analyze_type(type_node, ready) ==
    LET typ == expr_to_unanalyzed_type(type_node) IN
    IF typ = TranslationError THEN NoneAnalyzed
    ELSE LET analyzed == anal_type(typ, ready) IN
         IF analyzed.t = "Unbound" THEN AnyType("from_error") ELSE analyzed

\* ---- NamedTupleCallAnalyzer

shortname(call) == IF call.callee = "typing.NamedTuple" THEN "NamedTuple" ELSE "namedtuple"

\* _find_name_index: the 1-based index of the first argument called name, 0 for None.
find_name_index(call, name) ==
    LET hits == {i \in 1..Len(call.arg_names) : call.arg_names[i] = SomeStr(name)}
    IN  IF hits = {} THEN 0 ELSE Min(hits)

\* _validate_typename: reports a mismatch with the variable name, returns the name.
validate_typename(call, var_name, typename, errs) ==
    IF var_name.some /\ typename /= var_name.val
    THEN [ok |-> TRUE, typename |-> typename,
          errs |-> errs \o <<Diag("First argument should be the variable name", typename)>>]
    ELSE [ok |-> TRUE, typename |-> typename, errs |-> errs]

\* _parse_typename
parse_typename(call, var_name, errs) ==
    LET typename_index == find_name_index(call, S_typename)
        failed == [ok |-> FALSE, typename |-> <<>>, errs |-> errs]
        arg == IF typename_index /= 0 THEN call.args[typename_index]
               ELSE IF is_positional(call.arg_kinds[1]) THEN call.args[1]
               ELSE NoExpr
    IN  IF typename_index /= 0 /\ ~is_named(call.arg_kinds[typename_index])
        THEN failed
        ELSE IF arg.node /= "StrExpr"
        THEN [failed EXCEPT !.errs =
                 errs \o <<Diag("expects a string literal as the typename argument", <<>>)>>]
        ELSE validate_typename(call, var_name, arg.value, errs)

Deferred(typename, errs) == Struct(<<>>, <<>>, <<>>, typename, FALSE, errs)

\* The loop of _typing_namedtuple_from_fields over fields_arg.items, from item i.
RECURSIVE fields_loop(_, _, _, _, _, _, _)
fields_loop(call, items, i, names, types, typename, st) ==
    IF i > Len(items)
    THEN validate_fields(names, types, <<>>, typename, FALSE, st.errs)
    ELSE LET item == items[i] IN
         IF item.node /= "TupleExpr" \/ Len(item.items) /= 2
         THEN StructNone(st.errs \o <<Diag("Invalid field definition", <<>>)>>)
         ELSE IF item.items[1].node /= "StrExpr"
         THEN StructNone(st.errs \o <<Diag("Invalid field name", <<>>)>>)
         ELSE LET field_type == analyze_type(item.items[2], st.ready) IN
              IF field_type = NoneAnalyzed
              THEN Deferred(typename, st.errs)
              ELSE fields_loop(call, items, i + 1, Append(names, item.items[1].value),
                               Append(types, field_type), typename, st)

\* The loop of _typing_namedtuple_from_kwargs over the call's arguments, from index.
RECURSIVE kwargs_loop(_, _, _, _, _, _)
kwargs_loop(call, index, names, types, typename, st) ==
    IF index > Len(call.args)
    THEN validate_fields(names, types, <<>>, typename, FALSE, st.errs)
    ELSE LET name == call.arg_names[index]
             kind == call.arg_kinds[index]
             current_arg == call.args[index]
         IN  IF is_named(kind) /\ name \in {SomeStr(S_fields), SomeStr(S_typename)}
             THEN kwargs_loop(call, index + 1, names, types, typename, st)
             ELSE IF /\ index = 2
                     /\ is_positional(kind)
                     /\ current_arg = NameExpr("None")
             THEN kwargs_loop(call, index + 1, names, types, typename, st)
             ELSE IF ~is_named(kind)
             THEN IF index > 2
                  THEN StructNone(st.errs)
                  ELSE kwargs_loop(call, index + 1, names, types, typename, st)
             ELSE LET field_type == analyze_type(current_arg, st.ready) IN
                  IF field_type = NoneAnalyzed
                  THEN Deferred(typename, st.errs)
                  ELSE kwargs_loop(call, index + 1, Append(names, name.val),
                                   Append(types, field_type), typename, st)

\* _typing_namedtuple_from_kwargs
typing_namedtuple_from_kwargs(call, typename, st) ==
    kwargs_loop(call, 1, <<>>, <<>>, typename, st)

\* _typing_namedtuple_from_fields
typing_namedtuple_from_fields(call, typename, fields_arg_index, fields_is_named, st) ==
    LET fields_arg == call.args[fields_arg_index] IN
    IF /\ fields_arg = NameExpr("None")
       /\ (fields_is_named \/ is_positional(call.arg_kinds[fields_arg_index]))
    THEN typing_namedtuple_from_kwargs(call, typename, st)
    ELSE IF fields_arg.node \notin {"TupleExpr", "ListExpr"}
    THEN StructNone(st.errs \o
             <<Diag("List or tuple literal expected as the fields argument", <<>>)>>)
    ELSE IF Len(call.args) > 2
    THEN StructNone(st.errs)
    ELSE fields_loop(call, fields_arg.items, 1, <<>>, <<>>, typename, st)

\* _parse_typing_namedtuple
parse_typing_namedtuple(call, typename, st) ==
    LET named_index == find_name_index(call, S_fields)
        fields_is_named == named_index /= 0
        fields_arg_index ==
            IF named_index = 0 /\ is_positional(call.arg_kinds[2]) THEN 2 ELSE named_index
    IN  IF fields_arg_index = 0
        THEN typing_namedtuple_from_kwargs(call, typename, st)
        ELSE typing_namedtuple_from_fields(call, typename, fields_arg_index,
                                           fields_is_named, st)

\* value.replace(',', ' ').split(): the maximal runs of characters other than
\* commas and spaces, in order.  cur is the run being read.
RECURSIVE split_fields(_, _)
split_fields(value, cur) ==
    IF value = <<>>
    THEN IF cur = <<>> THEN <<>> ELSE <<cur>>
    ELSE IF Head(value) \in {",", " "}
    THEN (IF cur = <<>> THEN <<>> ELSE <<cur>>) \o split_fields(Tail(value), <<>>)
    ELSE split_fields(Tail(value), Append(cur, Head(value)))

\* _parse_collections_namedtuple
parse_collections_namedtuple(call, typename, st) ==
    LET named_index == find_name_index(call, S_field_names)
        field_names_index ==
            IF named_index = 0 /\ is_positional(call.arg_kinds[2]) THEN 2 ELSE named_index
    IN
    IF field_names_index = 0 THEN StructNone(st.errs)
    ELSE
    LET field_names_arg == call.args[field_names_index]
        is_seq == field_names_arg.node \in {"TupleExpr", "ListExpr"}
        bad_item == is_seq /\ \E i \in 1..Len(field_names_arg.items) :
                                  field_names_arg.items[i].node /= "StrExpr"
        names == IF is_seq
                 THEN [i \in 1..Len(field_names_arg.items) |-> field_names_arg.items[i].value]
                 ELSE split_fields(field_names_arg.value, <<>>)
        types == [i \in 1..Len(names) |-> AnyType("implementation_artifact")]
        defaults_index == find_name_index(call, S_defaults)
        defaults_arg == call.args[defaults_index]
        defaults == IF defaults_index /= 0 THEN defaults_arg.items ELSE <<>>
        rename_index == find_name_index(call, S_rename)
        rename_arg == call.args[rename_index]
        rename == rename_index /= 0 /\ rename_arg.name = "True"
    IN
    IF bad_item
    THEN StructNone(st.errs \o <<Diag("String literal expected as field", <<>>)>>)
    ELSE IF ~is_seq /\ field_names_arg.node /= "StrExpr"
    THEN StructNone(st.errs \o
             <<Diag("String, list or tuple literal expected as the field_names argument", <<>>)>>)
    ELSE IF defaults_index /= 0 /\ defaults_arg.node \notin {"TupleExpr", "ListExpr"}
    THEN StructNone(st.errs \o
             <<Diag("List or tuple literal expected as the defaults argument", <<>>)>>)
    ELSE IF /\ rename_index /= 0
            /\ (rename_arg.node /= "NameExpr" \/ rename_arg.name \notin {"True", "False"})
    THEN StructNone(st.errs \o <<Diag("Bool literal expected as the rename argument", <<>>)>>)
    ELSE validate_fields(names, types, defaults, typename, rename, st.errs)

\* parse_structure (through NamedTupleAnalyzer.parse_namedtuple_args)
parse_structure(call, var_name, ready) ==
    IF Len(call.args) = 0 THEN StructNone(<<>>)
    ELSE LET tn == parse_typename(call, var_name, <<>>)
             st == [ready |-> ready, errs |-> tn.errs]
         IN  IF ~tn.ok THEN StructNone(tn.errs)
             ELSE IF Len(call.args) = 1
             THEN validate_fields(<<>>, <<>>, <<>>, tn.typename, FALSE, tn.errs)
             ELSE IF call.callee = "typing.NamedTuple"
             THEN parse_typing_namedtuple(call, tn.typename, st)
             ELSE parse_collections_namedtuple(call, tn.typename, st)

\* ---- NamedTupleAnalyzer.check_namedtuple

\* What one call of check_namedtuple returns and does: the returned pair
\* (typename, info), the diagnostics reported, the symbols added to the current
\* scope (add_symbol) and to the enclosing non-local scope (add_symbol_skip_local),
\* the value stored in call.analyzed, and the number of fallback patches scheduled.
Outcome(typename, info, errs, added, added_skip_local, analyzed, patches) ==
    [typename |-> typename, info |-> info, errs |-> errs, added |-> added,
     added_skip_local |-> added_skip_local, analyzed |-> analyzed, patches |-> patches]

NamedTupleExpr(info, is_typed) == [node |-> "NamedTupleExpr", info |-> info, is_typed |-> is_typed]

\* items[-len(defaults):], as Python slices it.
LastItems(items, k) ==
    LET start == IF Len(items) - k < 0 THEN 0 ELSE Len(items) - k
    IN  SubSeq(items, start + 1, Len(items))

\* zip(a, b) as a sequence of pairs.
Zip(a, b) ==
    [i \in 1..(IF Len(a) < Len(b) THEN Len(a) ELSE Len(b)) |-> <<a[i], b[i]>>]

\* Mutant of default_items_of: the defaults go to the first fields.
default_items_leading(items, defaults) ==
    IF Len(defaults) > 0 THEN Zip(items, defaults) ELSE <<>>

\* The default_items mapping check_namedtuple builds from the trailing fields.
default_items_of(items, defaults) ==
    IF Len(defaults) > 0 THEN Zip(LastItems(items, Len(defaults)), defaults) ELSE <<>>

\* Mutant of check_namedtuple_ok: a structure that is not ready is built anyway.
check_namedtuple_ignoring_ok(result) == TRUE

\* The "if not ok" test of check_namedtuple on a parsed structure.
check_namedtuple_ok(result) == result.ok

\* check_namedtuple once the TypeInfo is built: the symbols stored for it and
\* the value put in call.analyzed.  failed is the "Error" branch, which stores
\* the dummy TypeInfo under its own name only.
store_namedtuple(call, var_name, is_func_scope, typename, name, info, errs, failed) ==
    LET is_typed == call.callee = "typing.NamedTuple"
        has_var == var_name.some /\ var_name.val /= <<>>
    IN  IF failed
        THEN Outcome(SomeStr(name), SomeInfo(info), errs,
                     <<<<name, info>>>>, <<>>, NamedTupleExpr(info, is_typed), 1)
        ELSE Outcome(SomeStr(typename), SomeInfo(info), errs,
                     IF has_var THEN <<<<var_name.val, info>>>> ELSE <<>>,
                     IF SomeStr(name) /= var_name \/ is_func_scope
                     THEN <<<<name, info>>>> ELSE <<>>,
                     IF has_var THEN NamedTupleExpr(info, is_typed) ELSE NoExpr,
                     1)

\* check_namedtuple after parse_namedtuple_args returned result.
check_namedtuple_parsed(call, var_name, is_func_scope, result) ==
    LET has_var == var_name.some /\ var_name.val /= <<>> IN
    IF result.none
    THEN \* Error. Construct dummy return value.
         LET name == IF has_var THEN var_name.val
                     ELSE S_namedtuple_at \o IntToStr(call.line)
         IN  store_namedtuple(call, var_name, is_func_scope, name, name,
                 build_namedtuple_typeinfo(name, <<>>, <<>>, <<>>, call.line),
                 result.errs, TRUE)
    ELSE IF ~check_namedtuple_ok(result)
    THEN \* This is a valid named tuple but some types are not ready.
         Outcome(SomeStr(result.typename), NoInfo, result.errs, <<>>, <<>>, NoExpr, 0)
    ELSE
    LET base == IF has_var THEN var_name.val ELSE result.typename
        name == IF ~var_name.some \/ is_func_scope
                THEN base \o <<"@">> \o IntToStr(call.line)
                ELSE base
    IN  store_namedtuple(call, var_name, is_func_scope, result.typename, name,
            build_namedtuple_typeinfo(name, result.items, result.types,
                default_items_of(result.items, result.defaults), call.line),
            result.errs, FALSE)

\* NamedTupleAnalyzer.check_namedtuple
check_namedtuple(call, var_name, is_func_scope, ready) ==
    IF call.callee \notin {"collections.namedtuple", "typing.NamedTuple"}
    THEN Outcome(NoneStr, NoInfo, <<>>, <<>>, <<>>, NoExpr, 0)
    ELSE check_namedtuple_parsed(call, var_name, is_func_scope,
                                 parse_structure(call, var_name, ready))

\* ---- analysis passes over one named tuple definition

MaxFields == 2
MaxPasses == 2

F_x == <<"x">>
F_y == <<"y">>
F_underscore == <<"_", "z">>
F_keyword == <<"i", "f">>
F_digit == <<"1">>
T_P == <<"P">>
T_Q == <<"Q">>

PosArgs(args) ==
    [args |-> args,
     arg_kinds |-> [i \in 1..Len(args) |-> "ARG_POS"],
     arg_names |-> [i \in 1..Len(args) |-> NoneStr]]

\* call with one more keyword argument name=arg.
WithKw(c, name, arg) ==
    [args |-> Append(c.args, arg),
     arg_kinds |-> Append(c.arg_kinds, "ARG_NAMED"),
     arg_names |-> Append(c.arg_names, SomeStr(name))]

Call(callee, c) ==
    [callee |-> callee, args |-> c.args, arg_kinds |-> c.arg_kinds,
     arg_names |-> c.arg_names, line |-> 7]

\* namedtuple(typename, [names...], defaults=[...], rename=True)
CollectionsCall(typename, names, ndefaults, rename) ==
    LET c0 == PosArgs(<<StrExpr(typename),
                        ListExpr([i \in 1..Len(names) |-> StrExpr(names[i])])>>)
        c1 == IF ndefaults > 0
              THEN WithKw(c0, S_defaults, TupleExpr([i \in 1..ndefaults |-> IntExpr(i)]))
              ELSE c0
        c2 == IF rename THEN WithKw(c1, S_rename, NameExpr("True")) ELSE c1
    IN  Call("collections.namedtuple", c2)

\* Expressions used as field types: a defined type, a sibling defined later, a
\* name that is never defined, and an expression that is not a type.
TypeNodes ==
    {NameExpr("int"), NameExpr("Sib"), NameExpr("Missing"), [node |-> "CallExpr"]}

\* NamedTuple(typename, [(name, type), ...])
TypingCall(typename, fields) ==
    Call("typing.NamedTuple",
         PosArgs(<<StrExpr(typename),
                   ListExpr([i \in 1..Len(fields) |->
                                TupleExpr(<<StrExpr(fields[i][1]), fields[i][2]>>)])>>))

\* NamedTuple(typename, x=type, y=type): keyword names x, y in this order.
RECURSIVE AddKwargs(_, _, _)
AddKwargs(c, names, types) ==
    IF types = <<>> THEN c
    ELSE AddKwargs(WithKw(c, Head(names), Head(types)), Tail(names), Tail(types))

TypingKwCall(typename, types) ==
    Call("typing.NamedTuple",
         AddKwargs(PosArgs(<<StrExpr(typename)>>), <<F_x, F_y, F_underscore>>, types))

\* Calls no dialect accepts, and calls of other functions.
OtherCalls ==
    { Call("collections.namedtuple", PosArgs(<<>>)),
      Call("collections.namedtuple", PosArgs(<<NameExpr("n"), ListExpr(<<>>)>>)),
      Call("collections.namedtuple", PosArgs(<<StrExpr(T_P), IntExpr(0)>>)),
      Call("collections.namedtuple", PosArgs(<<StrExpr(T_P), ListExpr(<<IntExpr(0)>>)>>)),
      Call("collections.namedtuple", PosArgs(<<StrExpr(T_P)>>)),
      Call("collections.namedtuple",
           PosArgs(<<StrExpr(T_P),
                     ListExpr(<<StrExpr(F_x), StrExpr(F_x), StrExpr(F_underscore)>>)>>)),
      Call("collections.namedtuple",
           PosArgs(<<StrExpr(T_P), StrExpr(<<"x", ",", " ", "y", " ", "x">>)>>)),
      Call("collections.namedtuple",
           WithKw(PosArgs(<<StrExpr(T_P), ListExpr(<<StrExpr(F_x)>>)>>),
                  S_defaults, IntExpr(0))),
      Call("collections.namedtuple",
           WithKw(PosArgs(<<StrExpr(T_P), ListExpr(<<StrExpr(F_x)>>)>>),
                  S_rename, IntExpr(0))),
      Call("collections.namedtuple",
           WithKw(WithKw(PosArgs(<<>>), S_field_names, TupleExpr(<<StrExpr(F_x)>>)),
                  S_typename, StrExpr(T_P))),
      Call("collections.namedtuple", WithKw(PosArgs(<<StrExpr(T_P)>>), S_rename, NameExpr("True"))),
      Call("typing.NamedTuple", PosArgs(<<StrExpr(T_P), IntExpr(0)>>)),
      Call("typing.NamedTuple", PosArgs(<<StrExpr(T_P), ListExpr(<<StrExpr(F_x)>>)>>)),
      Call("typing.NamedTuple",
           PosArgs(<<StrExpr(T_P),
                     ListExpr(<<TupleExpr(<<NameExpr("n"), NameExpr("int")>>)>>)>>)),
      Call("typing.NamedTuple",
           PosArgs(<<StrExpr(T_P), ListExpr(<<>>), NameExpr("int")>>)),
      Call("typing.NamedTuple",
           WithKw(PosArgs(<<StrExpr(T_P), NameExpr("None")>>), F_x, NameExpr("Sib"))),
      Call("typing.NamedTuple",
           WithKw(WithKw(PosArgs(<<StrExpr(T_P)>>), S_fields, NameExpr("None")),
                  F_x, NameExpr("int"))),
      TypingCall(F_keyword, <<<<F_x, NameExpr("Sib")>>>>),
      TypingCall(F_digit, <<<<F_keyword, NameExpr("int")>>>>),
      Call("m.other", PosArgs(<<StrExpr(T_P), ListExpr(<<>>)>>)) }

Calls ==
    {CollectionsCall(typename, names, ndefaults, rename) :
        typename \in {T_P, F_keyword},
        names \in SeqsUpTo({F_x, F_y, F_underscore, F_keyword, F_digit}, MaxFields),
        ndefaults \in 0..(MaxFields + 1),
        rename \in BOOLEAN}
    \cup
    {TypingCall(T_P, fields) :
        fields \in SeqsUpTo({F_x, F_underscore} \X TypeNodes, MaxFields)}
    \cup
    {TypingKwCall(T_P, types) : types \in SeqsUpTo(TypeNodes, MaxFields)}
    \cup OtherCalls

\* "var_name = call" at module level or in a function; var_name None is a call
\* used as a base class expression.
Scopes ==
    { <<NoneStr, FALSE>>, <<SomeStr(T_P), FALSE>>, <<SomeStr(T_Q), FALSE>>,
      <<SomeStr(T_P), TRUE>> }

Definitions ==
    {[call |-> call, var_name |-> scope[1], is_func_scope |-> scope[2]] :
        call \in Calls, scope \in Scopes}

NoDefinition == [call |-> Call("None", PosArgs(<<>>)), var_name |-> NoneStr,
                 is_func_scope |-> FALSE]

NoResult == [typename |-> NoneStr, info |-> NoInfo]

NTIdle ==
    /\ defn = NoDefinition
    /\ callAnalyzed = NoExpr
    /\ readyTypes = {}
    /\ globalNames = EmptyTable
    /\ localNames = EmptyTable
    /\ errors = <<>>
    /\ patchCount = 0
    /\ ntResult = NoResult
    /\ passes = 0
    /\ everDeferred = FALSE

NTInit ==
    /\ defn \in Definitions
    /\ callAnalyzed = NoExpr
    /\ readyTypes = {}
    /\ globalNames = EmptyTable
    /\ localNames = EmptyTable
    /\ errors = <<>>
    /\ patchCount = 0
    /\ ntResult = NoResult
    /\ passes = 0
    /\ everDeferred = FALSE

\* The definition still has to be analysed: no pass has produced a TypeInfo or
\* found that the call is not a named tuple.
Pending == passes = 0 \/ (ntResult.typename.some /\ ~ntResult.info.some)

\* api.add_symbol / api.add_symbol_skip_local on the tables of the model.
AddSymbols(table, entries) ==
    PutAll(table, [i \in 1..Len(entries) |->
                      <<entries[i][1], SymbolTableNode("TypeInfo", entries[i][2], FALSE)>>])

\* One pass of the analyzer over the definition: check_namedtuple and its effects.
CheckNamedtuple ==
    /\ defn /= NoDefinition
    /\ Pending
    /\ passes < MaxPasses
    /\ \E out \in {check_namedtuple(defn.call, defn.var_name, defn.is_func_scope, readyTypes)} :
           /\ ntResult' = [typename |-> out.typename, info |-> out.info]
           /\ errors' = errors \o out.errs
           /\ callAnalyzed' = IF out.analyzed = NoExpr THEN callAnalyzed ELSE out.analyzed
           /\ localNames' = IF defn.is_func_scope
                            THEN AddSymbols(localNames, out.added) ELSE localNames
           /\ globalNames' = AddSymbols(IF defn.is_func_scope THEN globalNames
                                        ELSE AddSymbols(globalNames, out.added),
                                        out.added_skip_local)
           /\ patchCount' = patchCount + out.patches
           /\ everDeferred' = (everDeferred \/ (out.typename.some /\ ~out.info.some))
    /\ passes' = passes + 1
    /\ UNCHANGED <<defn, readyTypes, nonNTVars>>

\* Between passes, a sibling type of the module becomes complete.
SiblingReady ==
    /\ defn /= NoDefinition
    /\ \E t \in ForwardTypes \ readyTypes : readyTypes' = readyTypes \cup {t}
    /\ UNCHANGED <<defn, callAnalyzed, globalNames, localNames, errors, patchCount,
                   ntResult, passes, everDeferred, nonNTVars>>

NTNext == CheckNamedtuple \/ SiblingReady

----------------------------------------------------------------------------
(* Dataclasses: mypy/plugins/dataclasses.py *)

\* A class of the program is a record
\*   [name, line, mro, decorated, args, body, names, metadata]
\* for ClassDef and TypeInfo together: mro is info.mro (the class first,
\* "object" last), args the keyword arguments of the dataclass decorator, body
\* cls.defs.body, names info.names and metadata info.metadata.  The body holds
\* annotated assignments to a name and the methods the plugin adds; type aliases,
\* Final declarations and field aliases are not part of the programs.

\* A type that analysis has not set (Var.type is None).
UnsetType == [t |-> NoType]
InitVarType(arg) == [t |-> "Instance", name |-> "dataclasses.InitVar", args |-> <<arg>>]
LiteralType(value) == [t |-> "Literal", value |-> value]
TupleType(items) == [t |-> "Tuple", items |-> items]

\* info.metadata: the dataclass tag and the 'dataclass' entry.
NoDataclassMetadata == [some |-> FALSE]
DataclassMetadata(attributes, frozen) ==
    [some |-> TRUE, attributes |-> attributes, frozen |-> frozen]

\* add_dataclass_tag
add_dataclass_tag(metadata) == [metadata EXCEPT !.dataclass_tag = TRUE]

\* A diagnostic with the line of its context.
DCFail(msg, line) == [msg |-> msg, line |-> line]

\* Right-hand sides of an annotated assignment: no value, a value, a call of
\* dataclasses.field with keyword arguments (a function from argument names).
TempNode == [node |-> "TempNode"]
ValueExpr == [node |-> "IntExpr"]
FieldCall(kwargs) == [node |-> "CallExpr", callee |-> "dataclasses.field", kwargs |-> kwargs]

\* name: type [= rvalue], new syntax, with a NameExpr on the left.
AssignmentStmt(name, rvalue, line) ==
    [stmt |-> "AssignmentStmt", name |-> name, rvalue |-> rvalue, line |-> line]

\* A Var of a symbol table.
Var(name, type, info) ==
    [node |-> "Var", name |-> name, type |-> type, info |-> info,
     is_property |-> FALSE, is_classvar |-> FALSE]

\* SymbolTableNode(MDEF, node) of a class.
MemberSym(node, plugin_generated) ==
    [kind |-> "MDEF", node |-> node, plugin_generated |-> plugin_generated,
     implicit |-> FALSE]

DataclassAttribute(name, is_in_init, is_init_var, has_default, line, type, info, kw_only) ==
    [name |-> name, is_in_init |-> is_in_init, is_init_var |-> is_init_var,
     has_default |-> has_default, line |-> line, type |-> type, info |-> info,
     kw_only |-> kw_only]

\* DataclassAttribute.serialize: the info is not part of the data.
serialize(attr) ==
    [name |-> attr.name, is_in_init |-> attr.is_in_init, is_init_var |-> attr.is_init_var,
     has_default |-> attr.has_default, line |-> attr.line, type |-> attr.type,
     kw_only |-> attr.kw_only]

\* DataclassAttribute.deserialize(info, data, api)
deserialize(info, data) ==
    DataclassAttribute(data.name, data.is_in_init, data.is_init_var, data.has_default,
                       data.line, data.type, info, data.kw_only)

\* DataclassAttribute.to_argument
to_argument(attr) ==
    [name |-> attr.name, type |-> attr.type,
     kind |-> IF attr.kw_only /\ attr.has_default THEN "ARG_NAMED_OPT"
              ELSE IF attr.kw_only /\ ~attr.has_default THEN "ARG_NAMED"
              ELSE IF ~attr.kw_only /\ attr.has_default THEN "ARG_OPT"
              ELSE "ARG_POS"]

\* _is_kw_only_type
is_kw_only_type(type) == type.t = "Instance" /\ type.name = "dataclasses.KW_ONLY"

\* api.parse_bool: True, False, or None for any other expression.
parse_bool(expr) == IF expr \in {"True", "False"} THEN expr ELSE "None"

\* Mutant of DictPut: a key that is present moves to the end.
DictPutAtEnd(found, attr) ==
    Append(SelectSeq(found, LAMBDA a : a.name /= attr.name), attr)

\* found_attrs[name] = attr on a dict kept as the sequence of its values in
\* insertion order: a key that is present keeps its position.
DictPut(found, attr) ==
    IF \E i \in 1..Len(found) : found[i].name = attr.name
    THEN [i \in 1..Len(found) |-> IF found[i].name = attr.name THEN attr ELSE found[i]]
    ELSE Append(found, attr)

\* reversed(seq)
Reversed(seq) == [i \in 1..Len(seq) |-> seq[Len(seq) + 1 - i]]

\* What collect_attributes has at a point of its run is a record: none for
\* "need another pass", the dict found_attrs, found_dataclass_supertype,
\* current_attr_names, the class's symbol table (names), the diagnostics
\* reported (errs) and, at the end, all_attrs.

\* The inner loop of the first part of collect_attributes: the attributes in
\* the metadata of the ancestor info, from data item i.
RECURSIVE inherit_attributes(_, _, _, _, _)
inherit_attributes(env, cls, info, i, acc) ==
    IF i > Len(env[info].metadata.dataclass.attributes) THEN acc
    ELSE LET data == env[info].metadata.dataclass.attributes[i]
             clash == /\ data.name \in DOMAIN acc.names
                      /\ acc.names[data.name].node.node /= "Var"
         IN  inherit_attributes(env, cls, info, i + 1,
                 [acc EXCEPT
                    !.found = DictPut(@, deserialize(info, data)),
                    !.errs = IF clash
                             THEN Append(@, DCFail(
                                 "Dataclass attribute may only be overridden by another attribute",
                                 acc.names[data.name].node.line))
                             ELSE @])

\* The first part of collect_attributes: the loop over reversed(cls.info.mro[1:-1]),
\* from position i of supers.
RECURSIVE collect_inherited(_, _, _, _, _)
collect_inherited(env, cls, supers, i, acc) ==
    IF i > Len(supers) THEN acc
    ELSE IF env[supers[i]].metadata.dataclass_tag /\ ~env[supers[i]].metadata.dataclass.some
    THEN \* We haven't processed the base class yet. Need another pass.
         [acc EXCEPT !.none = TRUE]
    ELSE IF ~env[supers[i]].metadata.dataclass.some
    THEN collect_inherited(env, cls, supers, i + 1, acc)
    ELSE collect_inherited(env, cls, supers, i + 1,
             inherit_attributes(env, cls, supers[i], 1,
                                [acc EXCEPT !.found_dataclass_supertype = TRUE]))

\* _collect_field_args: whether the right-hand side is a field() call, and its
\* keyword arguments.
has_field_call(rvalue) == rvalue.node = "CallExpr" /\ rvalue.callee = "dataclasses.field"
field_args(rvalue) == IF has_field_call(rvalue) THEN rvalue.kwargs ELSE <<>>

\* The attribute collect_attributes makes of one statement of the class body;
\* kw_only is the value the sentinel and the decorator have set so far.
own_attribute(cls, stmt, sym, kw_only) ==
    LET args == field_args(stmt.rvalue)
        is_init_var == /\ sym.node.type.t = "Instance"
                       /\ sym.node.type.name = "dataclasses.InitVar"
        is_in_init == IF "init" \notin DOMAIN args THEN TRUE
                      ELSE parse_bool(args["init"]) = "True"
        has_default == IF has_field_call(stmt.rvalue)
                       THEN \/ "default" \in DOMAIN args
                            \/ "default_factory" \in DOMAIN args
                            \/ "factory" \in DOMAIN args
                       ELSE stmt.rvalue.node /= "TempNode"
        is_kw_only == IF "kw_only" \in DOMAIN args /\ parse_bool(args["kw_only"]) /= "None"
                      THEN parse_bool(args["kw_only"]) = "True"
                      ELSE kw_only
    IN  DataclassAttribute(stmt.name, is_in_init, is_init_var, has_default, stmt.line,
                           IF is_init_var THEN sym.node.type.args[1] ELSE sym.node.type,
                           cls, is_kw_only)

\* The second part of collect_attributes: the loop over cls.defs.body, from
\* statement i.
RECURSIVE collect_own(_, _, _, _, _)
collect_own(cls, body, i, kw_only, acc) ==
    IF i > Len(body) THEN acc
    ELSE IF body[i].stmt /= "AssignmentStmt"
    THEN collect_own(cls, body, i + 1, kw_only, acc)
    ELSE IF body[i].name \notin DOMAIN acc.names
    THEN \* There was probably a semantic analysis error.
         collect_own(cls, body, i + 1, kw_only, acc)
    ELSE IF acc.names[body[i].name].node.is_classvar
    THEN collect_own(cls, body, i + 1, kw_only, acc)
    ELSE LET stmt == body[i]
             sym == acc.names[stmt.name]
             kw == kw_only \/ is_kw_only_type(sym.node.type)
             attr == own_attribute(cls, stmt, sym, kw)
             node == IF attr.is_init_var THEN [sym.node EXCEPT !.type = attr.type]
                     ELSE sym.node
             bad_kw_only == /\ "kw_only" \in DOMAIN field_args(stmt.rvalue)
                            /\ parse_bool(field_args(stmt.rvalue)["kw_only"]) = "None"
         IN  collect_own(cls, body, i + 1, kw,
                 [acc EXCEPT
                    !.names = [@ EXCEPT ![stmt.name] =
                                  [sym EXCEPT !.node = node,
                                              !.implicit = IF attr.has_default THEN @ ELSE TRUE]],
                    !.errs = IF bad_kw_only
                             THEN Append(@, DCFail("\"kw_only\" argument must be True or False.",
                                                   stmt.line))
                             ELSE @,
                    !.current_attr_names = @ \cup {stmt.name},
                    !.found = DictPut(@, attr)])

\* all_attrs.sort(key=lambda a: a.kw_only): a stable sort on a bool key.
sort_kw_only(all_attrs) ==
    SelectSeq(all_attrs, LAMBDA a : ~a.kw_only) \o SelectSeq(all_attrs, LAMBDA a : a.kw_only)

\* Mutant of default_order_error: fields left out of __init__ count as well.
default_order_error_any_field(all_attrs, i) ==
    /\ \E j \in 1..(i - 1) : all_attrs[j].has_default
    /\ ~all_attrs[i].has_default
    /\ ~all_attrs[i].kw_only

\* The test of the third part of collect_attributes on attribute i: found_default
\* holds and the attribute is in __init__, has no default and is not keyword-only.
default_order_error(all_attrs, i) ==
    /\ \E j \in 1..(i - 1) : all_attrs[j].has_default /\ all_attrs[j].is_in_init
    /\ all_attrs[i].is_in_init
    /\ ~all_attrs[i].has_default
    /\ ~all_attrs[i].kw_only

\* Mutant of error_context: every diagnostic is reported at the class.
error_context_class(cls_line, attr, current_attr_names) == cls_line

\* The context of a diagnostic about attr: its declaration when the current
\* class declares it, the class definition otherwise.
error_context(cls_line, attr, current_attr_names) ==
    IF attr.name \in current_attr_names THEN attr.line ELSE cls_line

\* The third part of collect_attributes: the diagnostics of the loop over all_attrs.
check_attribute_order(cls_line, all_attrs, current_attr_names) ==
    Concat([i \in 1..Len(all_attrs) |->
        (IF default_order_error(all_attrs, i)
         THEN <<DCFail("Attributes without a default cannot follow attributes with one",
                       error_context(cls_line, all_attrs[i], current_attr_names))>>
         ELSE <<>>)
        \o
        (IF /\ \E j \in 1..(i - 1) : is_kw_only_type(all_attrs[j].type)
            /\ is_kw_only_type(all_attrs[i].type)
         THEN <<DCFail("There may not be more than one field with the KW_ONLY type",
                       error_context(cls_line, all_attrs[i], current_attr_names))>>
         ELSE <<>>)])

\* collect_attributes once both loops have run: the sort and the checks.
collect_attributes_check(cls_line, acc) ==
    IF acc.none THEN [acc EXCEPT !.all_attrs = <<>>]
    ELSE [acc EXCEPT
            !.all_attrs = IF acc.found_dataclass_supertype
                          THEN sort_kw_only(acc.found) ELSE acc.found,
            !.errs = @ \o check_attribute_order(cls_line,
                              IF acc.found_dataclass_supertype
                              THEN sort_kw_only(acc.found) ELSE acc.found,
                              acc.current_attr_names)]

\* collect_attributes after the loop over the ancestors.
collect_attributes_own(env, cls, inherited) ==
    IF inherited.none THEN inherited
    ELSE collect_own(cls, env[cls].body, 1, env[cls].args.kw_only, inherited)

\* DataclassTransformer.collect_attributes: None (none), or all_attrs; with the
\* dict found_attrs before the sort, the symbol table and the diagnostics.
collect_attributes(env, cls) ==
    collect_attributes_check(env[cls].line,
        collect_attributes_own(env, cls,
            collect_inherited(env, cls,
                Reversed(SubSeq(env[cls].mro, 2, Len(env[cls].mro) - 1)), 1,
                [none |-> FALSE, found |-> <<>>, found_dataclass_supertype |-> FALSE,
                 current_attr_names |-> {}, names |-> env[cls].names, errs |-> <<>>,
                 all_attrs |-> <<>>])))

\* ---- mypy/plugins/common.py and mypy/util.py

\* get_unique_redefinition_name
RECURSIVE redefinition_suffix(_, _, _)
redefinition_suffix(r_name, existing, i) ==
    IF (r_name \o IntToString(i)) \in existing
    THEN redefinition_suffix(r_name, existing, i + 1)
    ELSE r_name \o IntToString(i)

get_unique_redefinition_name(name, existing) ==
    IF (name \o "-redefinition") \notin existing
    THEN name \o "-redefinition"
    ELSE redefinition_suffix(name \o "-redefinition", existing, 2)

\* list.remove(x): without the first item equal to x.
Remove(seq, x) ==
    IF \E i \in 1..Len(seq) : seq[i] = x
    THEN LET first == Min({i \in 1..Len(seq) : seq[i] = x})
         IN  SubSeq(seq, 1, first - 1) \o SubSeq(seq, first + 1, Len(seq))
    ELSE seq

\* del names[name]
Del(names, name) == [k \in DOMAIN names \ {name} |-> names[k]]

\* The FuncDef add_method_to_class builds.
FuncDef(info, name, line, args, ret) ==
    [stmt |-> "FuncDef", node |-> "FuncDef", name |-> name, info |-> info,
     fullname |-> info \o "." \o name, line |-> line,
     arg_names |-> [i \in 1..Len(args) |-> args[i].name],
     arg_types |-> [i \in 1..Len(args) |-> args[i].type],
     arg_kinds |-> [i \in 1..Len(args) |-> args[i].kind],
     ret_type |-> ret]

\* add_method_to_class on the class's symbol table and body (st.names, st.body),
\* for a method that is neither a classmethod nor a staticmethod.
add_method_to_class(st, info, line, name, args, return_type, self_type) ==
    LET func == FuncDef(info, name, line,
                        <<[name |-> "self", type |-> self_type, kind |-> "ARG_POS"]>> \o args,
                        return_type)
        removed == IF /\ name \in DOMAIN st.names
                      /\ st.names[name].plugin_generated
                      /\ st.names[name].node.node = "FuncDef"
                   THEN Remove(st.body, st.names[name].node)
                   ELSE st.body
        kept == IF name \in DOMAIN st.names
                THEN Put(st.names, get_unique_redefinition_name(name, DOMAIN st.names),
                         st.names[name])
                ELSE st.names
    IN  [st EXCEPT !.names = Put(kept, name, MemberSym(func, TRUE)),
                   !.body = Append(removed, func)]

\* add_attribute_to_class
add_attribute_to_class(st, info, name, typ) ==
    LET kept == IF name \in DOMAIN st.names
                THEN Put(st.names, get_unique_redefinition_name(name, DOMAIN st.names),
                         st.names[name])
                ELSE st.names
    IN  [st EXCEPT !.names = Put(kept, name, MemberSym(Var(name, typ, info), TRUE))]

\* ---- DataclassTransformer.transform

\* SELF_TVAR_NAME of the dataclasses plugin
DT_SELF_TVAR_NAME == "_DT"

\* options.python_version of the run.
python_version == <<3, 10>>

\* fill_typevars(info) of a class without type variables.
fill_typevars(info) == Instance(info)

\* TypeInfo.get: the entry of the first class of the MRO that has the name,
\* NoSym for None.
NoSym == [kind |-> "None"]
TypeInfoGet(env, mro, name) ==
    IF \E i \in 1..Len(mro) : name \in DOMAIN env[mro[i]].names
    THEN env[mro[Min({i \in 1..Len(mro) : name \in DOMAIN env[mro[i]].names})]].names[name]
    ELSE NoSym

\* Mutant of transform_init: an __init__ the program declares is replaced too.
transform_init_over_declared(env, cls, attributes, st) ==
    IF env[cls].args.init /\ attributes /= <<>>
    THEN add_method_to_class(st, cls, env[cls].line, "__init__",
             LET in_init == SelectSeq(attributes,
                                LAMBDA a : a.is_in_init /\ ~is_kw_only_type(a.type))
             IN  [i \in 1..Len(in_init) |-> to_argument(in_init[i])],
             [t |-> "NoneType"], fill_typevars(cls))
    ELSE st

\* The __init__ part of transform.
transform_init(env, cls, attributes, st) ==
    IF /\ env[cls].args.init
       /\ ("__init__" \notin DOMAIN st.names \/ st.names["__init__"].plugin_generated)
       /\ attributes /= <<>>
    THEN add_method_to_class(st, cls, env[cls].line, "__init__",
             LET in_init == SelectSeq(attributes,
                                LAMBDA a : a.is_in_init /\ ~is_kw_only_type(a.type))
             IN  [i \in 1..Len(in_init) |-> to_argument(in_init[i])],
             [t |-> "NoneType"], fill_typevars(cls))
    ELSE st

\* The self type variable transform stores for the generated comparisons.
transform_eq(env, cls, st) ==
    IF \/ /\ env[cls].args.eq
          /\ TypeInfoGet([env EXCEPT ![cls].names = st.names], env[cls].mro, "__eq__") = NoSym
       \/ env[cls].args.order
    THEN [st EXCEPT !.names = Put(@, DT_SELF_TVAR_NAME,
              MemberSym([node |-> "TypeVarExpr", name |-> DT_SELF_TVAR_NAME,
                         fullname |-> cls \o "." \o DT_SELF_TVAR_NAME], FALSE))]
    ELSE st

\* The loop of transform over __lt__, __gt__, __le__, __ge__, from method i.
RECURSIVE transform_order_methods(_, _, _, _)
transform_order_methods(env, cls, i, st) ==
    IF i > 4 THEN st
    ELSE LET method_name == <<"__lt__", "__gt__", "__le__", "__ge__">>[i]
             existing_method == TypeInfoGet([env EXCEPT ![cls].names = st.names],
                                            env[cls].mro, method_name)
             order_tvar_def == [t |-> "TypeVar", name |-> DT_SELF_TVAR_NAME]
         IN  transform_order_methods(env, cls, i + 1,
                 add_method_to_class(
                     [st EXCEPT !.errs =
                         IF existing_method /= NoSym /\ ~existing_method.plugin_generated
                         THEN Append(@, DCFail("You may not have a custom method when \"order\" is True",
                                               existing_method.node.line))
                         ELSE @],
                     cls, env[cls].line, method_name,
                     <<[name |-> "other", type |-> order_tvar_def, kind |-> "ARG_POS"]>>,
                     Instance("builtins.bool"), order_tvar_def))

\* The order part of transform.
transform_order(env, cls, st) ==
    IF env[cls].args.order
    THEN transform_order_methods(env, cls, 1,
             [st EXCEPT !.errs = IF ~env[cls].args.eq
                                 THEN Append(@, DCFail("\"eq\" must be True if \"order\" is True",
                                                       env[cls].line))
                                 ELSE @])
    ELSE st

\* Mutant of freeze: only the attributes that have an entry in the class's own
\* table become properties.
freeze_declared_only(cls, attributes, i, st) ==
    [st EXCEPT !.names =
        [k \in DOMAIN @ |->
            IF /\ \E j \in i..Len(attributes) : attributes[j].name = k
               /\ @[k].node.node = "Var"
            THEN [@[k] EXCEPT !.node.is_property = TRUE]
            ELSE @[k]]]

\* _freeze, from attribute i.
RECURSIVE freeze(_, _, _, _)
freeze(cls, attributes, i, st) ==
    IF i > Len(attributes) THEN st
    ELSE LET name == attributes[i].name IN
         freeze(cls, attributes, i + 1,
             IF name \in DOMAIN st.names
             THEN IF st.names[name].node.node = "Var"
                  THEN [st EXCEPT !.names[name].node.is_property = TRUE]
                  ELSE st
             ELSE [st EXCEPT !.names = Put(@, name,
                       MemberSym([Var(name, attributes[i].type, cls)
                                     EXCEPT !.is_property = TRUE], FALSE))])

\* metadata.get("dataclass") of the classes of info.mro[1:-1] that have one.
parent_decorator_arguments(env, cls) ==
    LET parents == SubSeq(env[cls].mro, 2, Len(env[cls].mro) - 1)
    IN  {env[parents[i]].metadata.dataclass :
            i \in {j \in 1..Len(parents) : env[parents[j]].metadata.dataclass.some}}

\* Mutant of transform_frozen: a class that is not frozen is not checked against
\* its ancestors.
transform_frozen_one_way(env, cls, attributes, st) ==
    IF env[cls].args.frozen
    THEN freeze(cls, attributes, 1,
             [st EXCEPT !.errs =
                 IF \E parent \in parent_decorator_arguments(env, cls) : ~parent.frozen
                 THEN Append(@, DCFail("Cannot inherit frozen dataclass from a non-frozen one",
                                       env[cls].line))
                 ELSE @])
    ELSE st

\* The frozen part of transform.
transform_frozen(env, cls, attributes, st) ==
    IF env[cls].args.frozen
    THEN freeze(cls, attributes, 1,
             [st EXCEPT !.errs =
                 IF \E parent \in parent_decorator_arguments(env, cls) : ~parent.frozen
                 THEN Append(@, DCFail("Cannot inherit frozen dataclass from a non-frozen one",
                                       env[cls].line))
                 ELSE @])
    ELSE [st EXCEPT !.errs =
             IF \E parent \in parent_decorator_arguments(env, cls) : parent.frozen
             THEN Append(@, DCFail("Cannot inherit non-frozen dataclass from a frozen one",
                                   env[cls].line))
             ELSE @]

\* reset_init_only_vars, on the symbol table.
reset_init_only_vars(attributes, st) ==
    [st EXCEPT !.names =
        [k \in DOMAIN @ \ {attributes[i].name :
                              i \in {j \in 1..Len(attributes) : attributes[j].is_init_var}}
            |-> @[k]]]

\* The __match_args__ part of transform.
transform_match_args(env, cls, attributes, st) ==
    IF /\ env[cls].args.match_args
       /\ \/ "__match_args__" \notin DOMAIN st.names
          \/ st.names["__match_args__"].plugin_generated
       /\ attributes /= <<>>
       /\ \/ python_version[1] > 3
          \/ python_version[1] = 3 /\ python_version[2] >= 10
    THEN add_attribute_to_class(st, cls, "__match_args__",
             LET in_init == SelectSeq(attributes, LAMBDA a : a.is_in_init)
             IN  TupleType([i \in 1..Len(in_init) |-> LiteralType(in_init[i].name)]))
    ELSE st

\* _add_dataclass_fields_magic_attribute
add_dataclass_fields_magic_attribute(cls, st) ==
    [st EXCEPT !.names = Put(@, "__dataclass_fields__",
        MemberSym([Var("__dataclass_fields__", Instance("builtins.dict"), cls)
                      EXCEPT !.is_classvar = TRUE], TRUE))]

\* What transform returns and leaves behind: its result, the class's symbol
\* table, body and 'dataclass' metadata, the diagnostics it reported, and the
\* attributes it collected (collected: collect_attributes did not return None;
\* found before the sort, attributes after it).
Transformed(result, st, dataclass, col) ==
    [result |-> result, names |-> st.names, body |-> st.body, dataclass |-> dataclass,
     errs |-> st.errs, collected |-> ~col.none, found |-> col.found,
     attributes |-> col.all_attrs]

\* Mutant of attributes_ready: attributes without a type are let through.
attributes_ready_unchecked(attributes) == TRUE

\* The loop of transform that returns False for an attribute without a type.
attributes_ready(attributes) ==
    \A i \in 1..Len(attributes) : attributes[i].type /= UnsetType

\* transform once collect_attributes has returned col.
transform_collected(env, cls, col) ==
    IF col.none \/ ~attributes_ready(col.all_attrs)
    THEN Transformed(FALSE, [names |-> col.names, body |-> env[cls].body, errs |-> col.errs],
                     env[cls].metadata.dataclass, col)
    ELSE Transformed(TRUE,
             add_dataclass_fields_magic_attribute(cls,
               transform_match_args(env, cls, col.all_attrs,
                 reset_init_only_vars(col.all_attrs,
                   transform_frozen(env, cls, col.all_attrs,
                     transform_order(env, cls,
                       transform_eq(env, cls,
                         transform_init(env, cls, col.all_attrs,
                           [names |-> col.names, body |-> env[cls].body,
                            errs |-> col.errs]))))))),
             DataclassMetadata([i \in 1..Len(col.all_attrs) |-> serialize(col.all_attrs[i])],
                               env[cls].args.frozen),
             col)

\* DataclassTransformer.transform
transform(env, cls) == transform_collected(env, cls, collect_attributes(env, cls))

\* ---- programs: a diamond of classes D(B, C), B(A), C(A)

MaxTransforms == 4

\* Declarations of an attribute in a class body, as the pair of the statement
\* and the type the main analysis pass gave the attribute.
Decl(name, type, rvalue) == [name |-> name, type |-> type, rvalue |-> rvalue]
Plain(name) == Decl(name, Instance("builtins.int"), TempNode)
Default(name) == Decl(name, Instance("builtins.int"), ValueExpr)
StrPlain(name) == Decl(name, Instance("builtins.str"), TempNode)
StrDefault(name) == Decl(name, Instance("builtins.str"), ValueExpr)
NoInit(name) == Decl(name, Instance("builtins.int"), FieldCall([init |-> "False"]))
NoInitDefault(name) ==
    Decl(name, Instance("builtins.int"), FieldCall([init |-> "False", default |-> "0"]))
KwDefault(name) ==
    Decl(name, Instance("builtins.int"), FieldCall([default |-> "0", kw_only |-> "True"]))
Unset(name) == Decl(name, UnsetType, TempNode)

\* The keyword arguments of a bare @dataclass.
DefaultArgs ==
    [init |-> TRUE, eq |-> TRUE, order |-> FALSE, frozen |-> FALSE, kw_only |-> FALSE,
     match_args |-> TRUE]

\* The class as the main analysis pass leaves it: one Var per declaration, and
\* the dataclass tag if the class is decorated (dataclass_tag_callback).
ClassDef(name, line, mro, decorated, decls) ==
    [name |-> name, line |-> line, mro |-> mro, decorated |-> decorated,
     args |-> DefaultArgs,
     body |-> [i \in 1..Len(decls) |->
                  AssignmentStmt(decls[i].name, decls[i].rvalue, line + i)],
     names |-> PutAll(EmptyTable,
                  [i \in 1..Len(decls) |->
                      <<decls[i].name, MemberSym(Var(decls[i].name, decls[i].type, name), FALSE)>>]),
     metadata |-> IF decorated
                  THEN add_dataclass_tag([dataclass_tag |-> FALSE,
                                          dataclass |-> NoDataclassMetadata])
                  ELSE [dataclass_tag |-> FALSE, dataclass |-> NoDataclassMetadata]]

\* builtins.object, with the __eq__ it defines.
ObjectDef ==
    [name |-> "object", line |-> 1, mro |-> <<"object">>, decorated |-> FALSE,
     args |-> DefaultArgs, body |-> <<>>,
     names |-> Put(EmptyTable, "__eq__",
                   MemberSym(FuncDef("object", "__eq__", 1, <<>>, Instance("builtins.bool")),
                             FALSE)),
     metadata |-> [dataclass_tag |-> FALSE, dataclass |-> NoDataclassMetadata]]

Program(a_decls, b_decorated, b_decls, c_decls, d_decls) ==
    [c \in {"A", "B", "C", "D", "object"} |->
        CASE c = "A" -> ClassDef("A", 10, <<"A", "object">>, TRUE, a_decls)
          [] c = "B" -> ClassDef("B", 20, <<"B", "A", "object">>, b_decorated, b_decls)
          [] c = "C" -> ClassDef("C", 30, <<"C", "A", "object">>, TRUE, c_decls)
          [] c = "D" -> ClassDef("D", 40, <<"D", "B", "C", "A", "object">>, TRUE, d_decls)
          [] c = "object" -> ObjectDef]

\* Programs about the order of defaults along the chain A, B, and programs about
\* redeclarations in the diamond.
Programs ==
    {Program(a, bd, b, <<>>, <<>>) :
        a \in { <<Plain("x"), Default("y")>>, <<Default("x"), Plain("y")>>,
                <<Default("x"), NoInit("y")>>, <<NoInitDefault("x"), Plain("y")>>,
                <<KwDefault("x"), Plain("y")>>, <<Unset("x")>>, <<Plain("x")>> },
        bd \in BOOLEAN,
        b \in { <<>>, <<Plain("z")>>, <<KwDefault("z"), Plain("w")>> }}
    \cup
    {Program(a, bd, <<>>, c, d) :
        a \in { <<Plain("x"), Default("y")>>, <<Plain("x")>> },
        bd \in BOOLEAN,
        c \in { <<>>, <<StrPlain("y")>>, <<StrDefault("y")>> },
        d \in { <<>>, <<Plain("w")>>, <<StrDefault("x")>>, <<Unset("w")>>, <<NoInit("w")>> }}

\* x: InitVar[int]
InitVarDecl(name) == Decl(name, InitVarType(Instance("builtins.int")), TempNode)

\* A method the program itself declares in a class body.
UserMethod(info, name, line) ==
    FuncDef(info, name, line,
            <<[name |-> "self", type |-> Instance(info), kind |-> "ARG_POS"]>>,
            [t |-> "NoneType"])

\* The program with the keyword arguments args on the decorator of cls and,
\* unless method is "None", a method of that name at the end of its body.
Decorated(prog, cls, args, method) ==
    [prog EXCEPT
        ![cls].args = args,
        ![cls].body = IF method = "None" THEN @
                      ELSE Append(@, UserMethod(cls, method, prog[cls].line + 5)),
        ![cls].names = IF method = "None" THEN @
                       ELSE Put(@, method,
                                MemberSym(UserMethod(cls, method, prog[cls].line + 5), FALSE))]

\* Programs about the decorator arguments init and frozen along the chain A, B,
\* with init-only variables and with methods the program declares in B.
DecoratorPrograms ==
    {Decorated(Decorated(Program(a, TRUE, b, <<>>, <<>>),
                         "A", [DefaultArgs EXCEPT !.frozen = a_frozen], "None"),
               "B", [DefaultArgs EXCEPT !.frozen = b_frozen, !.init = b_init], b_method) :
        a \in { <<>>, <<Plain("x")>>, <<InitVarDecl("x")>>, <<Plain("x"), Default("y")>> },
        b \in { <<>>, <<Plain("z")>> },
        a_frozen \in BOOLEAN, b_frozen \in BOOLEAN, b_init \in BOOLEAN,
        b_method \in {"None", "__init__", "x"}}

NoTransform == [cls |-> "None", collected |-> FALSE]

DCIdle ==
    /\ infos = <<>>
    /\ dcErrors = <<>>
    /\ lastTransform = NoTransform
    /\ transforms = 0

DCInit ==
    /\ infos \in Programs \cup DecoratorPrograms
    /\ dcErrors = <<>>
    /\ lastTransform = NoTransform
    /\ transforms = 0

\* dataclass_class_maker_callback on class cls: DataclassTransformer.transform.
Transform(cls) ==
    /\ transforms < MaxTransforms
    /\ infos[cls].decorated
    /\ \E out \in {transform(infos, cls)} :
          /\ infos' = [infos EXCEPT ![cls].names = out.names,
                                    ![cls].body = out.body,
                                    ![cls].metadata.dataclass = out.dataclass]
          /\ dcErrors' = dcErrors \o out.errs
          /\ lastTransform' = [cls |-> cls, result |-> out.result,
                               collected |-> out.collected, found |-> out.found,
                               attributes |-> out.attributes, errs |-> out.errs]
    /\ transforms' = transforms + 1
    /\ UNCHANGED nonDCVars

DCNext == \E cls \in {"A", "B", "C", "D"} : Transform(cls)

----------------------------------------------------------------------------
(* AST stripping: mypy/server/aststrip.py *)

\* The AST is an arena: tree maps a node id to the node's fields, and a node
\* names its children by id.  A symbol table maps a name to [kind, node,
\* implicit], the node given by its full name; file_names is the module's
\* table, type_infos[c].names the table of class c.  None is NoType for a
\* kind, a node reference or a name, and UnsetType for a type.

LDEF == "LDEF"
GDEF == "GDEF"
MDEF == "MDEF"
MODULE_REF == "MODULE_REF"
UNBOUND_IMPORTED == "UNBOUND_IMPORTED"

Symbol(kind, node, implicit) == [kind |-> kind, node |-> node, implicit |-> implicit]

\* The fields of the nodes that the stripper reads or writes.
MypyFileNode(defs) == [n |-> "MypyFile", defs |-> defs]

ClassDefNode(name, base_type_exprs, defs) ==
    [n |-> "ClassDef", name |-> name, info |-> name,
     base_type_exprs |-> base_type_exprs, removed_base_type_exprs |-> <<>>,
     type_vars |-> <<>>, defs |-> defs]

FuncItemNode(name, info, arguments, unanalyzed_type, body) ==
    [n |-> "FuncDef", name |-> name, info |-> info, arguments |-> arguments,
     expanded |-> <<>>,
     type |-> unanalyzed_type, unanalyzed_type |-> unanalyzed_type, body |-> body]

DecoratorNode(name, decorators, func) ==
    [n |-> "Decorator", name |-> name, var_type |-> UnsetType,
     decorators |-> decorators, func |-> func]

OverloadedFuncDefNode(name, items) ==
    [n |-> "OverloadedFuncDef", name |-> name, items |-> items, impl |-> NoType]

AssignmentStmtNode(lvalues, rvalue, unanalyzed_type) ==
    [n |-> "AssignmentStmt", lvalues |-> lvalues, rvalue |-> rvalue,
     type |-> unanalyzed_type, unanalyzed_type |-> unanalyzed_type]

ExpressionStmtNode(expr) == [n |-> "ExpressionStmt", expr |-> expr]

ImportFromNode(id, relative, names, is_unreachable) ==
    [n |-> "ImportFrom", id |-> id, relative |-> relative, names |-> names,
     assignments |-> <<>>, is_unreachable |-> is_unreachable]

ImportNode(ids, is_unreachable) ==
    [n |-> "Import", ids |-> ids, assignments |-> <<>>, is_unreachable |-> is_unreachable]

ImportAllNode(id, is_unreachable) ==
    [n |-> "ImportAll", id |-> id, imported_names |-> <<>>,
     is_unreachable |-> is_unreachable]

NameExprNode(name) ==
    [n |-> "NameExpr", name |-> name, kind |-> NoType, node |-> NoType,
     fullname |-> NoType, is_new_def |-> FALSE, is_inferred_def |-> FALSE]

MemberExprNode(expr, name) ==
    [n |-> "MemberExpr", expr |-> expr, name |-> name, kind |-> NoType,
     node |-> NoType, fullname |-> NoType, is_new_def |-> FALSE,
     is_inferred_def |-> FALSE, def_var |-> NoType]

CallExprNode(callee, args) ==
    [n |-> "CallExpr", callee |-> callee, args |-> args, analyzed |-> NoType]

IndexExprNode(base, index) ==
    [n |-> "IndexExpr", base |-> base, index |-> index, analyzed |-> NoType]

SuperExprNode(name, call) == [n |-> "SuperExpr", name |-> name, call |-> call, info |-> NoType]

TupleExprNode(items) == [n |-> "TupleExpr", items |-> items]

StarExprNode(expr) == [n |-> "StarExpr", expr |-> expr]

IntExprNode == [n |-> "IntExpr"]

\* A function signature: CallableType.
CallableType(arg_types, ret_type) ==
    [t |-> "CallableType", arg_types |-> arg_types, ret_type |-> ret_type,
     variables |-> <<>>]

TypeVarType(name) == [t |-> "TypeVar", tvar |-> name]

\* The fields of a TypeInfo that the stripper reads or writes; defn is the
\* class definition's node.
TypeInfoNode(class_def, names, mro) ==
    [defn |-> class_def, names |-> names, type_vars |-> <<>>, bases |-> <<>>,
     abstract_attributes |-> <<>>, mro |-> mro, tuple_type |-> UnsetType,
     typeddict_type |-> UnsetType, cache |-> {}, cache_proper |-> {},
     declared_metaclass |-> UnsetType, metaclass_type |-> UnsetType]

\* ---- NodeStripVisitor

NoError == "<ok>"

\* NodeStripVisitor.__init__, with the AST and the symbol tables the visit
\* changes in place; names designates a table: "file" for file_node.names, a
\* class for its info.names.  raised is the exception that ended the visit.
NodeStripVisitor(ast, names, types) ==
    [type |-> NoType, names |-> NoType, file_node |-> NoType,
     is_class_body |-> FALSE, recurse_into_functions |-> TRUE,
     tree |-> ast, file_names |-> names, type_infos |-> types, raised |-> NoError]

Raise(v, exception) == [v EXCEPT !.raised = exception]

\* The table self.names designates.
ActiveNames(v) ==
    IF v.names = "file" THEN v.file_names ELSE v.type_infos[v.names].names

SetActiveNames(v, table) ==
    IF v.names = "file" THEN [v EXCEPT !.file_names = table]
    ELSE [v EXCEPT !.type_infos[v.names].names = table]

\* if self.names: a table that is set and not empty.
HasActiveNames(v) == v.names /= NoType /\ DOMAIN ActiveNames(v) /= {}

\* TypeInfo.add_type_vars: the names of the type variables of the definition.
add_type_vars(v, info) == v.tree[v.type_infos[info].defn].type_vars

\* Mutant of strip_type_info: the MRO and the bases stay.
strip_type_info_keeping_mro(v, info) ==
    [v EXCEPT !.type_infos[info] =
        [@ EXCEPT !.type_vars = add_type_vars(v, info),
                  !.abstract_attributes = <<>>,
                  !.tuple_type = UnsetType,
                  !.typeddict_type = UnsetType,
                  !.cache = {},
                  !.cache_proper = {},
                  !.declared_metaclass = UnsetType,
                  !.metaclass_type = UnsetType]]

strip_type_info(v, info) ==
    [v EXCEPT !.type_infos[info] =
        [@ EXCEPT !.type_vars = add_type_vars(v, info),
                  !.bases = <<>>,
                  !.abstract_attributes = <<>>,
                  !.mro = <<>>,
                  !.tuple_type = UnsetType,
                  !.typeddict_type = UnsetType,
                  !.cache = {},
                  !.cache_proper = {},
                  !.declared_metaclass = UnsetType,
                  !.metaclass_type = UnsetType]]

enter_class(v, info) ==
    [v EXCEPT !.type = info, !.is_class_body = TRUE, !.names = info]

\* The end of a with enter_class block: old is the visitor at its start.
exit_class(old, v) ==
    IF v.raised /= NoError THEN v
    ELSE [v EXCEPT !.type = old.type, !.is_class_body = old.is_class_body,
                   !.names = old.names]

enter_method(v, info) == [v EXCEPT !.type = info, !.is_class_body = FALSE]

exit_method(old, v) ==
    IF v.raised /= NoError THEN v
    ELSE [v EXCEPT !.type = old.type, !.is_class_body = old.is_class_body]

\* del self.type.names[name]
strip_class_attr(v, name) ==
    IF v.type = NoType THEN v
    ELSE IF ~Has(v.type_infos[v.type].names, name) THEN Raise(v, "KeyError")
    ELSE [v EXCEPT !.type_infos[v.type].names = Del(@, name)]

strip_ref_expr(node) ==
    [node EXCEPT !.kind = NoType, !.node = NoType, !.fullname = NoType,
                 !.is_new_def = FALSE, !.is_inferred_def = FALSE]

\* TypeInfo.get(name) is not None: some class of the MRO has the name.
info_get(types, info, name) ==
    \E i \in 1..Len(types[info].mro) : Has(types[types[info].mro[i]].names, name)

\* is_duplicate_attribute_def, where the type is set.
is_duplicate_attribute_def(v, node) ==
    IF ~node.is_inferred_def THEN FALSE
    ELSE IF ~Has(v.type_infos[v.type].names, node.name) THEN FALSE
    ELSE \E i \in 2..Len(v.type_infos[v.type].mro) :
            info_get(v.type_infos, v.type_infos[v.type].mro[i], node.name)

RECURSIVE accept(_, _), accept_all(_, _, _), process_lvalue_in_method(_, _),
          process_lvalues_in_method(_, _, _)

\* Mutant of restore_base_type_exprs: the removed base expressions are dropped.
drop_removed_base_type_exprs(v, id) ==
    [v EXCEPT !.tree[id].removed_base_type_exprs = <<>>]

\* visit_class_def: the base expressions the analysis removed go back.
restore_base_type_exprs(v, id) ==
    [v EXCEPT !.tree[id].base_type_exprs = @ \o v.tree[id].removed_base_type_exprs,
              !.tree[id].removed_base_type_exprs = <<>>]

\* TraverserVisitor.visit_class_def
traverse_class_def(v, id) ==
    accept_all(accept_all(v, v.tree[id].base_type_exprs, 1), v.tree[id].defs, 1)

visit_class_def(v, id) ==
    exit_class(v,
        traverse_class_def(
            enter_class(restore_base_type_exprs(strip_type_info(v, v.tree[id].info), id),
                        v.tree[id].info),
            id))

\* Mutant of reset_func_type: the variables are cleared on the analysed type,
\* which stays.
reset_func_type_variables_only(node) ==
    [node EXCEPT !.expanded = <<>>,
                 !.type = IF @ = UnsetType THEN @ ELSE [@ EXCEPT !.variables = <<>>]]

\* visit_func_def: node.type and node.unanalyzed_type are one object after
\* the reset, so the variables are cleared on both.
reset_func_type(node) ==
    [node EXCEPT !.expanded = <<>>,
                 !.type = IF node.unanalyzed_type = UnsetType THEN UnsetType
                          ELSE [node.unanalyzed_type EXCEPT !.variables = <<>>],
                 !.unanalyzed_type = IF @ = UnsetType THEN @
                                     ELSE [@ EXCEPT !.variables = <<>>]]

\* TraverserVisitor.visit_func_def
traverse_func_def(v, id) == accept_all(v, v.tree[id].body, 1)

visit_func_def(v, id) ==
    IF ~v.recurse_into_functions THEN v
    ELSE IF v.tree[id].info /= NoType
    THEN exit_method(v,
            traverse_func_def(
                enter_method([v EXCEPT !.tree[id] = reset_func_type(@)], v.tree[id].info),
                id))
    ELSE traverse_func_def([v EXCEPT !.tree[id] = reset_func_type(@)], id)

visit_decorator_func(v, id) ==
    IF v.recurse_into_functions THEN accept(v, v.tree[id].func) ELSE v

visit_decorator(v, id) ==
    visit_decorator_func(
        accept_all([v EXCEPT !.tree[id].var_type = UnsetType], v.tree[id].decorators, 1),
        id)

\* TraverserVisitor.visit_overloaded_func_def
traverse_overloaded_func_def(v, id) ==
    IF v.tree[id].impl /= NoType
    THEN accept(accept_all(v, v.tree[id].items, 1), v.tree[id].impl)
    ELSE accept_all(v, v.tree[id].items, 1)

visit_overloaded_func_def(v, id) ==
    IF ~v.recurse_into_functions THEN v
    ELSE IF v.tree[id].impl = NoType THEN traverse_overloaded_func_def(v, id)
    ELSE IF v.tree[id].items /= <<>>
            /\ v.tree[id].items[Len(v.tree[id].items)] = v.tree[id].impl
    THEN Raise(v, "AssertionError")
    ELSE traverse_overloaded_func_def(
            [v EXCEPT !.tree[id].items = Append(@, v.tree[id].impl)], id)

process_lvalues_in_method(v, lvalues, i) ==
    IF i > Len(lvalues) \/ v.raised /= NoError THEN v
    ELSE process_lvalues_in_method(process_lvalue_in_method(v, lvalues[i]), lvalues, i + 1)

\* Mutant of process_lvalue_in_method: the items of a tuple or list are skipped.
process_lvalue_direct_only(v, lvalue) ==
    IF v.tree[lvalue].n = "MemberExpr"
    THEN IF v.tree[lvalue].is_new_def
         THEN IF ~Has(v.type_infos[v.type].names, v.tree[lvalue].name)
              THEN Raise(v, "KeyError")
              ELSE [v EXCEPT !.type_infos[v.type].names = Del(@, v.tree[lvalue].name)]
         ELSE v
    ELSE v

process_lvalue_in_method(v, lvalue) ==
    IF v.tree[lvalue].n = "MemberExpr"
    THEN IF v.tree[lvalue].is_new_def
         THEN IF ~Has(v.type_infos[v.type].names, v.tree[lvalue].name)
              THEN Raise(v, "KeyError")
              ELSE [v EXCEPT !.type_infos[v.type].names = Del(@, v.tree[lvalue].name)]
         ELSE v
    ELSE IF v.tree[lvalue].n \in {"TupleExpr", "ListExpr"}
    THEN process_lvalues_in_method(v, v.tree[lvalue].items, 1)
    ELSE v

\* TraverserVisitor.visit_assignment_stmt
traverse_assignment_stmt(v, id) ==
    accept_all(accept(v, v.tree[id].rvalue), v.tree[id].lvalues, 1)

visit_assignment_stmt_lvalues(v, id) ==
    IF v.type /= NoType /\ ~v.is_class_body
    THEN process_lvalues_in_method(v, v.tree[id].lvalues, 1)
    ELSE v

visit_assignment_stmt(v, id) ==
    traverse_assignment_stmt(
        visit_assignment_stmt_lvalues(
            [v EXCEPT !.tree[id].type = v.tree[id].unanalyzed_type], id),
        id)

\* semanal_shared.create_indirect_imported_name: the unbound entry of
\* 'from id import name', None when the relative import leaves the package
\* tree; the file is a top-level module.
create_indirect_imported_name(id, relative, name) ==
    IF relative > 0 THEN NoExpr
    ELSE Symbol(UNBOUND_IMPORTED, id \o "." \o name, FALSE)

\* as_name or name
ImportedName(names, i) == IF names[i][2] /= NoType THEN names[i][2] ELSE names[i][1]

RECURSIVE reset_imported_names(_, _, _)
reset_imported_names(v, id, i) ==
    IF i > Len(v.tree[id].names) THEN v
    ELSE IF v.file_node = NoType THEN Raise(v, "AssertionError")
    ELSE IF create_indirect_imported_name(v.tree[id].id, v.tree[id].relative,
                                          v.tree[id].names[i][1]) = NoExpr
    THEN reset_imported_names(v, id, i + 1)
    ELSE reset_imported_names(
            SetActiveNames(v,
                Put(ActiveNames(v), ImportedName(v.tree[id].names, i),
                    create_indirect_imported_name(v.tree[id].id, v.tree[id].relative,
                                                  v.tree[id].names[i][1]))),
            id, i + 1)

\* Mutant of visit_import_from: the names of an unreachable import are reset too.
visit_import_from_unreachable_too(v, id) ==
    IF v.tree[id].assignments /= <<>> THEN [v EXCEPT !.tree[id].assignments = <<>>]
    ELSE IF HasActiveNames(v) THEN reset_imported_names(v, id, 1)
    ELSE v

visit_import_from(v, id) ==
    IF v.tree[id].assignments /= <<>> THEN [v EXCEPT !.tree[id].assignments = <<>>]
    ELSE IF v.tree[id].is_unreachable THEN v
    ELSE IF HasActiveNames(v) THEN reset_imported_names(v, id, 1)
    ELSE v

\* imported_name.split('.')[0] for the dotted names of the programs below.
Initial(name) == IF name = "os.path" THEN "os" ELSE name

RECURSIVE unbind_imports(_, _, _)
unbind_imports(v, id, i) ==
    IF i > Len(v.tree[id].ids) THEN v
    ELSE IF ~Has(ActiveNames(v), Initial(ImportedName(v.tree[id].ids, i)))
    THEN Raise(v, "KeyError")
    ELSE unbind_imports(
            SetActiveNames(v,
                [ActiveNames(v) EXCEPT ![Initial(ImportedName(v.tree[id].ids, i))] =
                    [@ EXCEPT !.kind = UNBOUND_IMPORTED, !.node = NoType]]),
            id, i + 1)

visit_import(v, id) ==
    IF v.tree[id].assignments /= <<>> THEN [v EXCEPT !.tree[id].assignments = <<>>]
    ELSE IF v.tree[id].is_unreachable THEN v
    ELSE IF HasActiveNames(v) THEN unbind_imports(v, id, 1)
    ELSE v

RECURSIVE delete_imported_names(_, _, _)
delete_imported_names(v, id, i) ==
    IF i > Len(v.tree[id].imported_names) THEN v
    ELSE IF ~Has(ActiveNames(v), v.tree[id].imported_names[i]) THEN Raise(v, "KeyError")
    ELSE delete_imported_names(
            SetActiveNames(v, Del(ActiveNames(v), v.tree[id].imported_names[i])),
            id, i + 1)

clear_imported_names(v, id) ==
    IF v.raised /= NoError THEN v ELSE [v EXCEPT !.tree[id].imported_names = <<>>]

\* Mutant of visit_import_all: the statement keeps its list of imported names.
visit_import_all_keeping_names(v, id) ==
    IF v.tree[id].is_unreachable THEN v
    ELSE IF HasActiveNames(v) THEN delete_imported_names(v, id, 1)
    ELSE v

visit_import_all(v, id) ==
    IF v.tree[id].is_unreachable THEN v
    ELSE IF HasActiveNames(v) THEN clear_imported_names(delete_imported_names(v, id, 1), id)
    ELSE clear_imported_names(v, id)

visit_name_expr_ref(v, id) ==
    IF v.raised /= NoError THEN v ELSE [v EXCEPT !.tree[id] = strip_ref_expr(@)]

visit_name_expr(v, id) ==
    IF v.tree[id].kind = GDEF /\ v.tree[id].is_new_def THEN v
    ELSE IF v.tree[id].kind = MDEF /\ v.tree[id].is_new_def
    THEN visit_name_expr_ref(strip_class_attr(v, v.tree[id].name), id)
    ELSE visit_name_expr_ref(v, id)

\* The rest of visit_member_expr, once the reference and the two flags are
\* cleared.
visit_member_expr_duplicate(v, id) ==
    IF ~v.tree[id].is_inferred_def THEN accept(v, v.tree[id].expr)
    ELSE IF v.type = NoType THEN Raise(v, "AssertionError")
    ELSE IF is_duplicate_attribute_def(v, v.tree[id])
    THEN accept([strip_class_attr(v, v.tree[id].name) EXCEPT !.tree[id].def_var = NoType],
                v.tree[id].expr)
    ELSE accept(v, v.tree[id].expr)

visit_member_expr(v, id) ==
    visit_member_expr_duplicate(
        [v EXCEPT !.tree[id] = [strip_ref_expr(@) EXCEPT !.is_new_def = FALSE,
                                                         !.is_inferred_def = FALSE]],
        id)

visit_index_expr(v, id) ==
    accept(accept([v EXCEPT !.tree[id].analyzed = NoType], v.tree[id].base),
           v.tree[id].index)

visit_call_expr(v, id) ==
    accept(accept_all([v EXCEPT !.tree[id].analyzed = NoType], v.tree[id].args, 1),
           v.tree[id].callee)

visit_super_expr(v, id) ==
    accept([v EXCEPT !.tree[id].info = NoType], v.tree[id].call)

\* node.accept(visitor); an exception ends the visit.
accept(v, id) ==
    IF v.raised /= NoError THEN v
    ELSE CASE v.tree[id].n = "MypyFile" -> accept_all(v, v.tree[id].defs, 1)
           [] v.tree[id].n = "ClassDef" -> visit_class_def(v, id)
           [] v.tree[id].n = "FuncDef" -> visit_func_def(v, id)
           [] v.tree[id].n = "Decorator" -> visit_decorator(v, id)
           [] v.tree[id].n = "OverloadedFuncDef" -> visit_overloaded_func_def(v, id)
           [] v.tree[id].n = "AssignmentStmt" -> visit_assignment_stmt(v, id)
           [] v.tree[id].n = "ExpressionStmt" -> accept(v, v.tree[id].expr)
           [] v.tree[id].n = "ImportFrom" -> visit_import_from(v, id)
           [] v.tree[id].n = "Import" -> visit_import(v, id)
           [] v.tree[id].n = "ImportAll" -> visit_import_all(v, id)
           [] v.tree[id].n = "NameExpr" -> visit_name_expr(v, id)
           [] v.tree[id].n = "MemberExpr" -> visit_member_expr(v, id)
           [] v.tree[id].n = "IndexExpr" -> visit_index_expr(v, id)
           [] v.tree[id].n = "CallExpr" -> visit_call_expr(v, id)
           [] v.tree[id].n = "SuperExpr" -> visit_super_expr(v, id)
           [] v.tree[id].n \in {"TupleExpr", "ListExpr"} -> accept_all(v, v.tree[id].items, 1)
           [] v.tree[id].n = "StarExpr" -> accept(v, v.tree[id].expr)
           [] OTHER -> v

accept_all(v, ids, i) ==
    IF i > Len(ids) THEN v ELSE accept_all(accept(v, ids[i]), ids, i + 1)

\* Mutant of strip_file_top_level: the visit goes into the functions as well.
strip_file_recursing(v, file_node) ==
    accept([v EXCEPT !.names = "file", !.file_node = file_node], file_node)

strip_file_top_level(v, file_node) ==
    accept([v EXCEPT !.names = "file", !.file_node = file_node,
                     !.recurse_into_functions = FALSE],
           file_node)

\* strip_target on the node of the given AST, with the symbol tables it
\* reaches; the result is the visitor at the end.
strip_target(ast, names, types, node) ==
    IF ast[node].n = "MypyFile"
    THEN strip_file_top_level(NodeStripVisitor(ast, names, types), node)
    ELSE accept(NodeStripVisitor(ast, names, types), node)

\* ---- The semantic analysis that follows the first pass (mypy/semanal.py):
\* what it computes is what the stripper resets.

\* The names bound to type variables, the public names of module lib, the
\* callees whose call is a special form and the names of generic aliases.
TypeVars == {"T"}
LibNames == <<"helper">>
SpecialForms == {"namedtuple"}
AliasNames == {"List"}

\* The analyser's position: the enclosing class, whether it is in the class
\* body or in a function, the local names bound so far.
SemanticAnalyzer(ast, names, types) ==
    [cls |-> NoType, is_class_body |-> FALSE, in_function |-> FALSE,
     recurse_into_functions |-> TRUE, locals |-> {}, explicit_type |-> FALSE,
     tree |-> ast, file_names |-> names, type_infos |-> types]

\* The analysis of a type: an unbound name becomes a type variable or an
\* instance; an analysed type stays.
bind_unbound(typ) ==
    IF typ.t = "Unbound"
    THEN IF typ.name \in TypeVars THEN TypeVarType(typ.name)
         ELSE Instance("builtins." \o typ.name)
    ELSE typ

bind_signature(typ) ==
    [typ EXCEPT !.arg_types = [i \in DOMAIN @ |-> bind_unbound(@[i])],
                !.ret_type = bind_unbound(@)]

RECURSIVE Unique(_, _, _)
Unique(seq, i, acc) ==
    IF i > Len(seq) THEN acc
    ELSE IF seq[i] \in Range(acc) THEN Unique(seq, i + 1, acc)
    ELSE Unique(seq, i + 1, Append(acc, seq[i]))

\* The type variables a signature uses: the unbound names that are type
\* variables, in order of appearance.
unbound_type_variables(typ) ==
    Unique([i \in 1..Len(SelectSeq(typ.arg_types \o <<typ.ret_type>>,
                                   LAMBDA x : x.t = "Unbound" /\ x.name \in TypeVars)) |->
               SelectSeq(typ.arg_types \o <<typ.ret_type>>,
                         LAMBDA x : x.t = "Unbound" /\ x.name \in TypeVars)[i].name],
           1, <<>>)

\* The type-variable binder: variables already on the signature are kept,
\* otherwise the signature's own variables are the ones it uses that the
\* enclosing class does not bind.
bind_function_type_variables(a, node) ==
    IF node.type.variables /= <<>> THEN node.type.variables
    ELSE SelectSeq(unbound_type_variables(node.type),
                   LAMBDA x : node.info = NoType
                              \/ x \notin Range(a.type_infos[node.info].type_vars))

\* The binder writes the variables on the signature it is handed, which is the
\* unanalysed one while the two are the same object; the analysis then
\* replaces node.type.
bind_func_type(node, variables) ==
    [node EXCEPT !.unanalyzed_type = IF node.type = node.unanalyzed_type
                                     THEN [@ EXCEPT !.variables = variables] ELSE @,
                 !.type = bind_signature([@ EXCEPT !.variables = variables])]

RECURSIVE analyze(_, _), analyze_all(_, _, _), analyze_lvalue(_, _), analyze_lvalues(_, _, _)

\* A method is entered in its class's table.
add_func_definition(a, id) ==
    IF a.tree[id].info = NoType THEN a
    ELSE [a EXCEPT !.type_infos[a.tree[id].info].names =
              Put(@, a.tree[id].name,
                  Symbol(MDEF, a.tree[id].info \o "." \o a.tree[id].name, FALSE))]

analyze_func_type(a, id) ==
    IF a.tree[id].type = UnsetType THEN a
    ELSE [a EXCEPT !.tree[id] = bind_func_type(@, bind_function_type_variables(a, @))]

leave_scope(old, a) ==
    [a EXCEPT !.cls = old.cls, !.is_class_body = old.is_class_body,
              !.in_function = old.in_function, !.locals = old.locals]

analyze_func_def(a, id) ==
    IF ~a.recurse_into_functions THEN a
    ELSE leave_scope(a,
            analyze_all([analyze_func_type(add_func_definition(a, id), id)
                            EXCEPT !.cls = IF a.tree[id].info /= NoType
                                           THEN a.tree[id].info ELSE a.cls,
                                   !.is_class_body = FALSE,
                                   !.in_function = TRUE,
                                   !.locals = Range(a.tree[id].arguments)],
                        a.tree[id].body, 1))

\* A base expression that declares the class's type variables: Generic[...].
IsGenericBase(a, base) ==
    /\ a.tree[base].n = "IndexExpr"
    /\ a.tree[a.tree[base].base].name = "Generic"

BaseNames(a, bases) == [i \in 1..Len(bases) |-> a.tree[bases[i]].name]

\* The MRO of a class with the given base expressions.
linearize(a, name, bases) ==
    IF bases = <<>> THEN <<name, "object">>
    ELSE <<name>> \o a.type_infos[a.tree[bases[1]].name].mro

\* The type variables the Generic[...] bases declare.
RECURSIVE declared_type_vars(_, _, _)
declared_type_vars(a, generic, i) ==
    IF i > Len(generic) THEN <<>>
    ELSE <<a.tree[a.tree[generic[i]].index].name>> \o declared_type_vars(a, generic, i + 1)

\* The class analysis on the base expressions split into the ones that declare
\* type variables and the rest.
analyze_class_bases(a, id, generic, rest) ==
    [a EXCEPT !.tree[id].base_type_exprs = rest,
              !.tree[id].removed_base_type_exprs = @ \o generic,
              !.tree[id].type_vars = declared_type_vars(a, generic, 1),
              !.type_infos[a.tree[id].info] =
                  [@ EXCEPT !.type_vars = declared_type_vars(a, generic, 1),
                            !.bases = IF rest = <<>> THEN <<Instance("builtins.object")>>
                                      ELSE [i \in 1..Len(rest) |->
                                               Instance(a.tree[rest[i]].name)],
                            !.mro = linearize(a, a.tree[id].name, rest),
                            !.cache = {<<a.tree[id].name, c>> :
                                          c \in Range(linearize(a, a.tree[id].name, rest))},
                            !.cache_proper = {<<a.tree[id].name, c>> :
                                          c \in Range(linearize(a, a.tree[id].name, rest))}]]

analyze_class_body(a, id, bases) ==
    analyze_all(analyze_all([a EXCEPT !.cls = a.tree[id].info, !.is_class_body = TRUE,
                                      !.in_function = FALSE],
                            bases, 1),
                a.tree[id].defs, 1)

analyze_class_def(a, id) ==
    leave_scope(a,
        analyze_class_body(
            analyze_class_bases(a, id,
                SelectSeq(a.tree[id].base_type_exprs, LAMBDA b : IsGenericBase(a, b)),
                SelectSeq(a.tree[id].base_type_exprs, LAMBDA b : ~IsGenericBase(a, b))),
            id, a.tree[id].base_type_exprs))

\* The inferred type of a decorated function's variable.
set_var_type(a, id) == [a EXCEPT !.tree[id].var_type = a.tree[a.tree[id].func].type]

analyze_decorator_func(a, id) ==
    IF a.recurse_into_functions THEN analyze(a, a.tree[id].func) ELSE a

analyze_decorator(a, id) ==
    set_var_type(analyze_decorator_func(analyze_all(a, a.tree[id].decorators, 1), id), id)

\* The last item of an overloaded group is its implementation when it is not
\* an @overload item; the analysis takes it off the items.
split_implementation(a, id) ==
    IF a.tree[id].items /= <<>>
       /\ a.tree[a.tree[id].items[Len(a.tree[id].items)]].n = "FuncDef"
    THEN [a EXCEPT !.tree[id].impl = a.tree[id].items[Len(a.tree[id].items)],
                   !.tree[id].items = SubSeq(@, 1, Len(@) - 1)]
    ELSE a

analyze_overloaded_items(a, id) ==
    IF a.tree[id].impl /= NoType
    THEN analyze(analyze_all(a, a.tree[id].items, 1), a.tree[id].impl)
    ELSE analyze_all(a, a.tree[id].items, 1)

analyze_overloaded_func_def(a, id) ==
    IF ~a.recurse_into_functions THEN a
    ELSE analyze_overloaded_items(split_implementation(a, id), id)

\* A name lvalue: a local in a function, a member in a class body, defined
\* when the class has no such name yet, and a global otherwise; the first
\* pass has bound the globals that are definitions.
analyze_name_lvalue(a, id) ==
    IF a.in_function
    THEN [a EXCEPT !.tree[id] = [@ EXCEPT !.kind = LDEF, !.node = a.tree[id].name,
                                          !.fullname = a.tree[id].name,
                                          !.is_new_def = a.tree[id].name \notin a.locals],
                   !.locals = @ \cup {a.tree[id].name}]
    ELSE IF a.cls /= NoType /\ a.is_class_body
    THEN IF ~Has(a.type_infos[a.cls].names, a.tree[id].name)
         THEN [a EXCEPT !.tree[id] = [@ EXCEPT !.kind = MDEF,
                                               !.node = a.cls \o "." \o a.tree[id].name,
                                               !.fullname = a.cls \o "." \o a.tree[id].name,
                                               !.is_new_def = TRUE],
                        !.type_infos[a.cls].names =
                            Put(@, a.tree[id].name,
                                Symbol(MDEF, a.cls \o "." \o a.tree[id].name, FALSE))]
         ELSE [a EXCEPT !.tree[id] =
                  [@ EXCEPT !.kind = MDEF,
                            !.node = a.type_infos[a.cls].names[a.tree[id].name].node,
                            !.fullname = a.type_infos[a.cls].names[a.tree[id].name].node,
                            !.is_new_def = FALSE]]
    ELSE IF a.tree[id].kind = GDEF /\ a.tree[id].is_new_def THEN a
    ELSE IF Has(a.file_names, a.tree[id].name)
    THEN [a EXCEPT !.tree[id] = [@ EXCEPT !.kind = GDEF,
                                          !.node = a.file_names[a.tree[id].name].node,
                                          !.fullname = a.file_names[a.tree[id].name].node]]
    ELSE a

\* self.name as an lvalue in a method: a new attribute of the class, implicit,
\* when no class of the MRO has the name, or when the assignment declares a
\* type and the class itself has no entry for the name.
analyze_member_lvalue(a, id) ==
    IF /\ a.in_function
       /\ a.cls /= NoType
       /\ a.tree[a.tree[id].expr].n = "NameExpr"
       /\ a.tree[a.tree[id].expr].name = "self"
       /\ \/ ~info_get(a.type_infos, a.cls, a.tree[id].name)
          \/ a.explicit_type /\ ~Has(a.type_infos[a.cls].names, a.tree[id].name)
    THEN [a EXCEPT !.tree[id] = [@ EXCEPT !.kind = MDEF,
                                          !.node = a.cls \o "." \o a.tree[id].name,
                                          !.fullname = a.cls \o "." \o a.tree[id].name,
                                          !.is_new_def = TRUE,
                                          !.is_inferred_def = TRUE,
                                          !.def_var = a.cls \o "." \o a.tree[id].name],
                   !.type_infos[a.cls].names =
                       Put(@, a.tree[id].name,
                           Symbol(MDEF, a.cls \o "." \o a.tree[id].name, TRUE))]
    ELSE a

analyze_lvalues(a, lvalues, i) ==
    IF i > Len(lvalues) THEN a
    ELSE analyze_lvalues(analyze_lvalue(a, lvalues[i]), lvalues, i + 1)

analyze_lvalue(a, id) ==
    CASE a.tree[id].n = "NameExpr" -> analyze_name_lvalue(a, id)
      [] a.tree[id].n = "MemberExpr" ->
             analyze_member_lvalue(analyze(a, a.tree[id].expr), id)
      [] a.tree[id].n \in {"TupleExpr", "ListExpr"} ->
             analyze_lvalues(a, a.tree[id].items, 1)
      [] a.tree[id].n = "StarExpr" -> analyze_lvalue(a, a.tree[id].expr)
      [] OTHER -> analyze(a, id)

analyze_assignment_stmt(a, id) ==
    [analyze_lvalues(
        [analyze([a EXCEPT !.tree[id].type = bind_unbound(@)], a.tree[id].rvalue)
            EXCEPT !.explicit_type = a.tree[id].unanalyzed_type /= UnsetType],
        a.tree[id].lvalues, 1)
     EXCEPT !.explicit_type = a.explicit_type]

\* A reference: a local, a member seen from the class body, a module-level
\* name, a builtin.
analyze_name_expr(a, id) ==
    IF a.in_function /\ a.tree[id].name \in a.locals
    THEN [a EXCEPT !.tree[id] = [@ EXCEPT !.kind = LDEF, !.node = a.tree[id].name,
                                          !.fullname = a.tree[id].name]]
    ELSE IF a.cls /= NoType /\ a.is_class_body
            /\ Has(a.type_infos[a.cls].names, a.tree[id].name)
    THEN [a EXCEPT !.tree[id] =
             [@ EXCEPT !.kind = MDEF,
                       !.node = a.type_infos[a.cls].names[a.tree[id].name].node,
                       !.fullname = a.type_infos[a.cls].names[a.tree[id].name].node]]
    ELSE IF Has(a.file_names, a.tree[id].name)
    THEN [a EXCEPT !.tree[id] =
             [@ EXCEPT !.kind = a.file_names[a.tree[id].name].kind,
                       !.node = a.file_names[a.tree[id].name].node,
                       !.fullname = a.file_names[a.tree[id].name].node]]
    ELSE [a EXCEPT !.tree[id] = [@ EXCEPT !.kind = GDEF,
                                          !.node = "builtins." \o a.tree[id].name,
                                          !.fullname = "builtins." \o a.tree[id].name]]

\* A call that is a special form records its analysis.
classify_call(a, id) ==
    IF a.tree[a.tree[id].callee].n = "NameExpr"
       /\ a.tree[a.tree[id].callee].name \in SpecialForms
    THEN [a EXCEPT !.tree[id].analyzed = "NamedTupleExpr"]
    ELSE [a EXCEPT !.tree[id].analyzed = NoType]

analyze_call_expr(a, id) ==
    classify_call(analyze(analyze_all(a, a.tree[id].args, 1), a.tree[id].callee), id)

\* An index expression on a generic alias records the alias.
classify_index(a, id) ==
    IF a.tree[a.tree[id].base].n = "NameExpr"
       /\ a.tree[a.tree[id].base].name \in AliasNames
    THEN [a EXCEPT !.tree[id].analyzed = "TypeAliasExpr"]
    ELSE [a EXCEPT !.tree[id].analyzed = NoType]

analyze_index_expr(a, id) ==
    classify_index(analyze(analyze(a, a.tree[id].base), a.tree[id].index), id)

analyze_super_expr(a, id) ==
    analyze([a EXCEPT !.tree[id].info = a.cls], a.tree[id].call)

\* from id import *: the public names of the module that the file does not
\* have yet are added and recorded.
RECURSIVE import_all_names(_, _, _)
import_all_names(a, id, i) ==
    IF i > Len(LibNames) THEN a
    ELSE IF Has(a.file_names, LibNames[i]) THEN import_all_names(a, id, i + 1)
    ELSE import_all_names(
            [a EXCEPT !.file_names =
                          Put(@, LibNames[i],
                              Symbol(GDEF, a.tree[id].id \o "." \o LibNames[i], FALSE)),
                      !.tree[id].imported_names = Append(@, LibNames[i])],
            id, i + 1)

analyze_import_all(a, id) ==
    IF a.tree[id].is_unreachable THEN a ELSE import_all_names(a, id, 1)

\* from id import name as as_name: an unbound entry is bound; a name bound to
\* something else is assigned to, which the statement records.  In a class
\* body the name becomes a member of the class, in a function a local.
RECURSIVE import_from_names(_, _, _)
import_from_names(a, id, i) ==
    IF i > Len(a.tree[id].names) THEN a
    ELSE IF a.cls /= NoType /\ a.is_class_body
    THEN import_from_names(
            [a EXCEPT !.type_infos[a.cls].names =
                          Put(@, ImportedName(a.tree[id].names, i),
                              Symbol(MDEF, a.tree[id].id \o "." \o a.tree[id].names[i][1],
                                     FALSE))],
            id, i + 1)
    ELSE IF a.in_function
    THEN import_from_names(
            [a EXCEPT !.locals = @ \cup {ImportedName(a.tree[id].names, i)}], id, i + 1)
    ELSE IF Has(a.file_names, ImportedName(a.tree[id].names, i))
            /\ a.file_names[ImportedName(a.tree[id].names, i)].kind /= UNBOUND_IMPORTED
    THEN import_from_names(
            [a EXCEPT !.tree[id].assignments =
                          Append(@, ImportedName(a.tree[id].names, i))],
            id, i + 1)
    ELSE import_from_names(
            [a EXCEPT !.file_names =
                          Put(@, ImportedName(a.tree[id].names, i),
                              Symbol(GDEF, a.tree[id].id \o "." \o a.tree[id].names[i][1],
                                     FALSE))],
            id, i + 1)

analyze_import_from(a, id) ==
    IF a.tree[id].is_unreachable THEN a ELSE import_from_names(a, id, 1)

RECURSIVE import_modules(_, _, _)
import_modules(a, id, i) ==
    IF i > Len(a.tree[id].ids) THEN a
    ELSE IF Has(a.file_names, Initial(ImportedName(a.tree[id].ids, i)))
            /\ a.file_names[Initial(ImportedName(a.tree[id].ids, i))].kind
                   /= UNBOUND_IMPORTED
    THEN import_modules(
            [a EXCEPT !.tree[id].assignments =
                          Append(@, Initial(ImportedName(a.tree[id].ids, i)))],
            id, i + 1)
    ELSE import_modules(
            [a EXCEPT !.file_names =
                          Put(@, Initial(ImportedName(a.tree[id].ids, i)),
                              Symbol(MODULE_REF,
                                     Initial(ImportedName(a.tree[id].ids, i)), FALSE))],
            id, i + 1)

analyze_import(a, id) ==
    IF a.tree[id].is_unreachable THEN a ELSE import_modules(a, id, 1)

analyze(a, id) ==
    CASE a.tree[id].n = "MypyFile" -> analyze_all(a, a.tree[id].defs, 1)
      [] a.tree[id].n = "ClassDef" -> analyze_class_def(a, id)
      [] a.tree[id].n = "FuncDef" -> analyze_func_def(a, id)
      [] a.tree[id].n = "Decorator" -> analyze_decorator(a, id)
      [] a.tree[id].n = "OverloadedFuncDef" -> analyze_overloaded_func_def(a, id)
      [] a.tree[id].n = "AssignmentStmt" -> analyze_assignment_stmt(a, id)
      [] a.tree[id].n = "ExpressionStmt" -> analyze(a, a.tree[id].expr)
      [] a.tree[id].n = "ImportFrom" -> analyze_import_from(a, id)
      [] a.tree[id].n = "Import" -> analyze_import(a, id)
      [] a.tree[id].n = "ImportAll" -> analyze_import_all(a, id)
      [] a.tree[id].n = "NameExpr" -> analyze_name_expr(a, id)
      [] a.tree[id].n = "MemberExpr" -> analyze(a, a.tree[id].expr)
      [] a.tree[id].n = "IndexExpr" -> analyze_index_expr(a, id)
      [] a.tree[id].n = "CallExpr" -> analyze_call_expr(a, id)
      [] a.tree[id].n = "SuperExpr" -> analyze_super_expr(a, id)
      [] a.tree[id].n \in {"TupleExpr", "ListExpr"} -> analyze_all(a, a.tree[id].items, 1)
      [] a.tree[id].n = "StarExpr" -> analyze(a, a.tree[id].expr)
      [] OTHER -> a

analyze_all(a, ids, i) ==
    IF i > Len(ids) THEN a ELSE analyze_all(analyze(a, ids[i]), ids, i + 1)

\* The analysis of a target: the top level of the file without its functions,
\* or a function with everything in it.
semantic_analysis(ast, names, types, node) ==
    IF ast[node].n = "MypyFile"
    THEN analyze([SemanticAnalyzer(ast, names, types)
                     EXCEPT !.recurse_into_functions = FALSE], node)
    ELSE analyze(SemanticAnalyzer(ast, names, types), node)

\* The first analysis of a file goes through all of it.
first_analysis(ast, names, types, node) ==
    analyze(SemanticAnalyzer(ast, names, types), node)

\* ---- The files stripped

MaxStrips == 2

\* The module m after the first pass, with the parts that vary:
\*
\*     from lib import *               (imports reachable or not)
\*     from lib import g as h
\*     import os.path
\*     class C(Base, Generic[T]):      (with or without Generic[T])
\*         a: int = 1
\*         def m(self, t: T) -> T:
\*             self.x = namedtuple()
\*             self.x, self.y = t      (present or not, or self.x, *self.y = t)
\*             super().m(t)
\*         def k(self) -> None:
\*             self.x: int = 1
\*     def f(t: T) -> T:               (or f(t: int) -> int)
\*         y: int = h(t)
\*         z = List[int]
\*     @overload
\*     def o(a: int) -> int: ...
\*     @overload
\*     def o(a: str) -> str: ...
\*     def o(a): ...
\*     @dec
\*     def d() -> None: ...
\*     def g() -> None:
\*         class L:
\*             from lib import g       (present or not)
\*             def n(self) -> None:
\*                 self.w = 1
\*     from lib import g as d          (present or not: imports over the function d)
\*     import lib as d
\*
\* and, together with the imports over d, 'from lib import g as q' in the body
\* of C and 'from lib import g as r' in the body of f.
\*
\* Base is a class of another module, which defines x or not.
FileTree(generic, tuple_stmt, unreachable, f_generic, local_import, import_over) ==
    [id \in {"file", "imp_all", "imp_from", "imp", "C", "C.b1", "C.b2", "C.b2.base",
             "C.b2.index", "C.a", "C.a.lv", "C.a.rv", "C.m", "C.m.1", "C.m.1.lv",
             "C.m.1.self", "C.m.1.rv", "C.m.1.callee", "C.m.2", "C.m.2.lv", "C.m.2.x",
             "C.m.2.x.self", "C.m.2.y", "C.m.2.y.self", "C.m.2.star", "C.m.2.xstar", "C.m.2.rv", "C.m.3",
             "C.m.3.super", "C.m.3.call", "C.m.3.callee", "C.k", "C.k.1", "C.k.1.lv",
             "C.k.1.self", "C.k.1.rv", "f", "f.1", "f.1.lv", "f.1.rv", "f.1.callee",
             "f.1.arg", "f.2", "f.2.lv", "f.2.rv", "f.2.base", "f.2.index", "o", "o.1",
             "o.1.dec", "o.1.f", "o.2", "o.2.dec", "o.2.f", "o.impl", "d", "d.dec",
             "d.f", "g", "g.L", "g.L.n", "g.L.n.1", "g.L.n.1.lv", "g.L.n.1.self",
             "g.L.n.1.rv", "g.L.imp", "imp_from_d", "imp_d", "C.imp", "f.imp"} |->
        CASE id = "file" ->
                 MypyFileNode(
                     IF import_over
                     THEN <<"imp_all", "imp_from", "imp", "C", "f", "o", "d", "g",
                            "imp_from_d", "imp_d">>
                     ELSE <<"imp_all", "imp_from", "imp", "C", "f", "o", "d", "g">>)
          [] id = "imp_from_d" -> ImportFromNode("lib", 0, <<<<"g", "d">>>>, unreachable)
          [] id = "imp_d" -> ImportNode(<<<<"lib", "d">>>>, unreachable)
          [] id = "imp_all" -> ImportAllNode("lib", unreachable)
          [] id = "imp_from" -> ImportFromNode("lib", 0, <<<<"g", "h">>>>, unreachable)
          [] id = "imp" -> ImportNode(<<<<"os.path", NoType>>>>, unreachable)
          [] id = "C" ->
                 ClassDefNode("C",
                     IF generic THEN <<"C.b1", "C.b2">> ELSE <<"C.b1">>,
                     IF import_over THEN <<"C.a", "C.imp", "C.m", "C.k">>
                     ELSE <<"C.a", "C.m", "C.k">>)
          [] id = "C.imp" -> ImportFromNode("lib", 0, <<<<"g", "q">>>>, unreachable)
          [] id = "f.imp" -> ImportFromNode("lib", 0, <<<<"g", "r">>>>, unreachable)
          [] id = "C.b1" -> NameExprNode("Base")
          [] id = "C.b2" -> IndexExprNode("C.b2.base", "C.b2.index")
          [] id = "C.b2.base" -> NameExprNode("Generic")
          [] id = "C.b2.index" -> NameExprNode("T")
          [] id = "C.a" -> AssignmentStmtNode(<<"C.a.lv">>, "C.a.rv", UnboundType("int"))
          [] id = "C.a.lv" -> NameExprNode("a")
          [] id = "C.m" ->
                 FuncItemNode("m", "C", <<"self", "t">>,
                     CallableType(<<UnboundType("T")>>, UnboundType("T")),
                     IF tuple_stmt /= "none" THEN <<"C.m.1", "C.m.2", "C.m.3">>
                     ELSE <<"C.m.1", "C.m.3">>)
          [] id = "C.m.1" -> AssignmentStmtNode(<<"C.m.1.lv">>, "C.m.1.rv", UnsetType)
          [] id = "C.m.1.lv" -> MemberExprNode("C.m.1.self", "x")
          [] id = "C.m.1.rv" -> CallExprNode("C.m.1.callee", <<>>)
          [] id = "C.m.1.callee" -> NameExprNode("namedtuple")
          [] id = "C.m.2" ->
                 AssignmentStmtNode(<<"C.m.2.lv">>, "C.m.2.rv",
                     IF tuple_stmt = "typed_star" THEN UnboundType("int") ELSE UnsetType)
          [] id = "C.m.2.lv" ->
                 TupleExprNode(
                     CASE tuple_stmt = "star" -> <<"C.m.2.x", "C.m.2.star">>
                       [] tuple_stmt = "typed_star" -> <<"C.m.2.y", "C.m.2.xstar">>
                       [] OTHER -> <<"C.m.2.x", "C.m.2.y">>)
          [] id = "C.m.2.star" -> StarExprNode("C.m.2.y")
          [] id = "C.m.2.xstar" -> StarExprNode("C.m.2.x")
          [] id = "C.m.2.x" -> MemberExprNode("C.m.2.x.self", "x")
          [] id = "C.m.2.y" -> MemberExprNode("C.m.2.y.self", "y")
          [] id = "C.m.2.rv" -> NameExprNode("t")
          [] id = "C.m.3" -> ExpressionStmtNode("C.m.3.super")
          [] id = "C.m.3.super" -> SuperExprNode("m", "C.m.3.call")
          [] id = "C.m.3.call" -> CallExprNode("C.m.3.callee", <<>>)
          [] id = "C.m.3.callee" -> NameExprNode("super")
          [] id = "C.k" ->
                 FuncItemNode("k", "C", <<"self">>, CallableType(<<>>, UnboundType("None")),
                              <<"C.k.1">>)
          [] id = "C.k.1" ->
                 AssignmentStmtNode(<<"C.k.1.lv">>, "C.k.1.rv", UnboundType("int"))
          [] id = "C.k.1.lv" -> MemberExprNode("C.k.1.self", "x")
          [] id \in {"C.m.1.self", "C.m.2.x.self", "C.m.2.y.self", "C.k.1.self",
                     "g.L.n.1.self"} ->
                 NameExprNode("self")
          [] id = "f" ->
                 FuncItemNode("f", NoType, <<"t">>,
                     IF f_generic THEN CallableType(<<UnboundType("T")>>, UnboundType("T"))
                     ELSE CallableType(<<UnboundType("int")>>, UnboundType("int")),
                     IF import_over THEN <<"f.imp", "f.1", "f.2">> ELSE <<"f.1", "f.2">>)
          [] id = "f.1" -> AssignmentStmtNode(<<"f.1.lv">>, "f.1.rv", UnboundType("int"))
          [] id = "f.1.lv" -> NameExprNode("y")
          [] id = "f.1.rv" -> CallExprNode("f.1.callee", <<"f.1.arg">>)
          [] id = "f.1.callee" -> NameExprNode("h")
          [] id = "f.1.arg" -> NameExprNode("t")
          [] id = "f.2" -> AssignmentStmtNode(<<"f.2.lv">>, "f.2.rv", UnsetType)
          [] id = "f.2.lv" -> NameExprNode("z")
          [] id = "f.2.rv" -> IndexExprNode("f.2.base", "f.2.index")
          [] id = "f.2.base" -> NameExprNode("List")
          [] id = "f.2.index" -> NameExprNode("int")
          [] id = "o" -> OverloadedFuncDefNode("o", <<"o.1", "o.2", "o.impl">>)
          [] id = "o.1" -> DecoratorNode("o", <<"o.1.dec">>, "o.1.f")
          [] id = "o.2" -> DecoratorNode("o", <<"o.2.dec">>, "o.2.f")
          [] id \in {"o.1.dec", "o.2.dec"} -> NameExprNode("overload")
          [] id = "o.1.f" ->
                 FuncItemNode("o", NoType, <<"a">>,
                     CallableType(<<UnboundType("int")>>, UnboundType("int")), <<>>)
          [] id = "o.2.f" ->
                 FuncItemNode("o", NoType, <<"a">>,
                     CallableType(<<UnboundType("str")>>, UnboundType("str")), <<>>)
          [] id = "o.impl" -> FuncItemNode("o", NoType, <<"a">>, UnsetType, <<>>)
          [] id = "d" -> DecoratorNode("d", <<"d.dec">>, "d.f")
          [] id = "d.dec" -> NameExprNode("dec")
          [] id = "d.f" ->
                 FuncItemNode("d", NoType, <<>>, CallableType(<<>>, UnboundType("None")),
                              <<>>)
          [] id = "g" ->
                 FuncItemNode("g", NoType, <<>>, CallableType(<<>>, UnboundType("None")),
                              <<"g.L">>)
          [] id = "g.L" ->
                 ClassDefNode("L", <<>>,
                     IF local_import THEN <<"g.L.imp", "g.L.n">> ELSE <<"g.L.n">>)
          [] id = "g.L.imp" -> ImportFromNode("lib", 0, <<<<"g", NoType>>>>, FALSE)
          [] id = "g.L.n" ->
                 FuncItemNode("n", "L", <<"self">>, CallableType(<<>>, UnboundType("None")),
                              <<"g.L.n.1">>)
          [] id = "g.L.n.1" -> AssignmentStmtNode(<<"g.L.n.1.lv">>, "g.L.n.1.rv", UnsetType)
          [] id = "g.L.n.1.lv" -> MemberExprNode("g.L.n.1.self", "w")
          [] OTHER -> IntExprNode]

\* The module's symbol table after the first pass: the module-level
\* definitions, and the imported names, unbound, when the imports are
\* reachable.
FileNames(unreachable) ==
    LET defined == [k \in {"Base", "C", "f", "o", "d", "dec", "g"} |->
                       Symbol(GDEF, "m." \o k, FALSE)]
    IN  IF unreachable THEN defined
        ELSE Put(Put(defined, "h", Symbol(UNBOUND_IMPORTED, "lib.g", FALSE)),
                 "os", Symbol(UNBOUND_IMPORTED, NoType, FALSE))

\* The classes: C and the local class L, not analysed yet, and Base and object
\* of other modules.
FileTypeInfos(base_x) ==
    [c \in {"C", "L", "Base", "object"} |->
        CASE c = "C" -> TypeInfoNode("C", EmptyTable, <<>>)
          [] c = "L" -> TypeInfoNode("g.L", EmptyTable, <<>>)
          [] c = "Base" ->
                 TypeInfoNode(NoType,
                     IF base_x THEN Put(EmptyTable, "x", Symbol(MDEF, "Base.x", FALSE))
                     ELSE EmptyTable,
                     <<"Base", "object">>)
          [] OTHER -> TypeInfoNode(NoType, EmptyTable, <<"object">>)]

\* The targets of the file: the module top level and its functions.
Targets == {"file", "C.m", "C.k", "f", "o", "d.f", "g"}

NoSnapshot ==
    [target |-> NoType, count |-> 0, full |-> TRUE, tree |-> <<>>, file_names |-> <<>>,
     type_infos |-> <<>>]

StripIdle ==
    /\ tree = <<>>
    /\ fileNames = <<>>
    /\ typeInfos = <<>>
    /\ pending = <<>>
    /\ analysed = NoSnapshot
    /\ stripError = NoError
    /\ stripCount = 0

\* A file that has been through the first pass and the full analysis.
\* The files: every combination of the parts that vary in the class and the
\* functions, and the starred lvalues and the imports over d on their own.
StripVariants ==
    [generic : BOOLEAN, tuple_stmt : {"none", "tuple"}, unreachable : BOOLEAN,
     f_generic : BOOLEAN, base_x : BOOLEAN, local_import : BOOLEAN, import_over : {FALSE}]
    \cup
    [generic : {FALSE}, tuple_stmt : {"star", "typed_star"}, unreachable : {FALSE},
     f_generic : {FALSE}, base_x : BOOLEAN, local_import : {FALSE}, import_over : {FALSE}]
    \cup
    [generic : BOOLEAN, tuple_stmt : {"none"}, unreachable : BOOLEAN,
     f_generic : {FALSE}, base_x : {FALSE}, local_import : {FALSE}, import_over : {TRUE}]

StripInit ==
    /\ \E p \in StripVariants :
          \E a \in {first_analysis(FileTree(p.generic, p.tuple_stmt, p.unreachable,
                                            p.f_generic, p.local_import, p.import_over),
                                   FileNames(p.unreachable), FileTypeInfos(p.base_x),
                                   "file")} :
              /\ tree = a.tree
              /\ fileNames = a.file_names
              /\ typeInfos = a.type_infos
    /\ pending = <<>>
    /\ analysed = NoSnapshot
    /\ stripError = NoError
    /\ stripCount = 0

\* strip_target(node) on a target of the file; an exception ends the
\* reprocessing.  analysed keeps the state the stripping started from.
StripTarget(node) ==
    /\ stripError = NoError
    /\ stripCount < MaxStrips
    /\ \E v \in {strip_target(tree, fileNames, typeInfos, node)} :
          /\ tree' = v.tree
          /\ fileNames' = v.file_names
          /\ typeInfos' = v.type_infos
          /\ stripError' = v.raised
    /\ pending' = Append(pending, node)
    /\ analysed' = IF pending = <<>>
                   THEN [target |-> node, count |-> stripCount, full |-> analysed.full,
                         tree |-> tree, file_names |-> fileNames,
                         type_infos |-> typeInfos]
                   ELSE analysed
    /\ stripCount' = stripCount + 1
    /\ UNCHANGED nonStripVars

\* The analysis passes run again on a stripped target.  A target analysed
\* while another one is still stripped may take over what the stripped one
\* lacks: analysed.full records that this has not happened.
Reanalyze(node) ==
    /\ stripError = NoError
    /\ node \in Range(pending)
    /\ \E a \in {semantic_analysis(tree, fileNames, typeInfos, node)} :
          /\ tree' = a.tree
          /\ fileNames' = a.file_names
          /\ typeInfos' = a.type_infos
    /\ pending' = SelectSeq(pending, LAMBDA p : p /= node)
    /\ analysed' = [analysed EXCEPT !.full = @ /\ Range(pending) = {node}]
    /\ UNCHANGED <<stripError, stripCount, nonStripVars>>

StripNext == \E node \in Targets : StripTarget(node) \/ Reanalyze(node)

----------------------------------------------------------------------------
(* Type variable scopes: mypy/tvar_scope.py *)

MaxBinds == 3
MaxDepth == 2

\* parent=None
NoScope == [none |-> TRUE]

\* TypeVarScope.__init__
TypeVarScope(parent) ==
    [scope |-> EmptyTable, parent |-> parent,
     func_id |-> IF parent /= NoScope THEN parent.func_id ELSE 0,
     class_id |-> IF parent /= NoScope THEN parent.class_id ELSE 0]

\* A TypeVarExpr of the module: T = TypeVar('T').
TypeVarExprOf(name, line) ==
    [name |-> name, fullname |-> "m." \o name, values |-> <<>>,
     upper_bound |-> Instance("builtins.object"), variance |-> 0,
     line |-> line, column |-> 0]
TypeVarExprs == {TypeVarExprOf("T", 1), TypeVarExprOf("S", 2)}

TypeVarDef(name, id, values, upper_bound, variance, line, column) ==
    [name |-> name, id |-> id, values |-> values, upper_bound |-> upper_bound,
     variance |-> variance, line |-> line, column |-> column]

\* TypeVarScope._bind: the scope with the new binding; the TypeVarDef it
\* returns is the binding of tvar_expr.fullname().
bind(self, name, tvar_expr, i) ==
    [self EXCEPT !.scope = Put(@, tvar_expr.fullname,
        TypeVarDef(name, i, tvar_expr.values, tvar_expr.upper_bound, tvar_expr.variance,
                   tvar_expr.line, tvar_expr.column))]

\* Mutant of bind_fun_tvar: the function ids count upwards.
bind_fun_tvar_upwards(self, name, tvar_expr) ==
    bind([self EXCEPT !.func_id = @ + 1], name, tvar_expr, self.func_id + 1)

\* TypeVarScope.bind_fun_tvar
bind_fun_tvar(self, name, tvar_expr) ==
    bind([self EXCEPT !.func_id = @ - 1], name, tvar_expr, self.func_id - 1)

\* TypeVarScope.bind_class_tvar
bind_class_tvar(self, name, tvar_expr) ==
    bind([self EXCEPT !.class_id = @ + 1], name, tvar_expr, self.class_id + 1)

\* The number of scopes from self up to the outermost one.
RECURSIVE Depth(_)
Depth(self) == IF self = NoScope THEN 0 ELSE 1 + Depth(self.parent)

\* get_binding found no binding: None.
NoTypeVarDef == [none |-> TRUE]

\* TypeVarScope.get_binding for a full name: the scope's own binding, else the
\* parent's answer, else None.
RECURSIVE get_binding(_, _)
get_binding(self, fullname) ==
    IF Has(self.scope, fullname) THEN self.scope[fullname]
    ELSE IF self.parent /= NoScope THEN get_binding(self.parent, fullname)
    ELSE NoTypeVarDef

\* self.parent is a reference: a bind call on the scope up levels above self
\* is seen from self.  kind is "fun" for bind_fun_tvar, "class" for
\* bind_class_tvar.
RECURSIVE bind_in_ancestor(_, _, _, _)
bind_in_ancestor(self, up, kind, tvar_expr) ==
    IF up = 0
    THEN IF kind = "fun" THEN bind_fun_tvar(self, tvar_expr.name, tvar_expr)
         ELSE bind_class_tvar(self, tvar_expr.name, tvar_expr)
    ELSE [self EXCEPT !.parent = bind_in_ancestor(self.parent, up - 1, kind, tvar_expr)]

\* The scope up levels above self.
RECURSIVE Ancestor(_, _)
Ancestor(self, up) == IF up = 0 THEN self ELSE Ancestor(self.parent, up - 1)

NoBind == [kind |-> "None"]

TVIdle ==
    /\ tvScope = NoScope
    /\ tvBound = NoBind
    /\ tvBinds = 0

\* TypeVarScope()
TVInit ==
    /\ tvScope = TypeVarScope(NoScope)
    /\ tvBound = NoBind
    /\ tvBinds = 0

\* scope.bind_fun_tvar(name, tvar_expr)
BindFunTvar(tvar_expr) ==
    /\ tvBinds < MaxBinds
    /\ \E out \in {bind_fun_tvar(tvScope, tvar_expr.name, tvar_expr)} :
          /\ tvScope' = out
          /\ tvBound' = [kind |-> "fun", def |-> out.scope[tvar_expr.fullname]]
    /\ tvBinds' = tvBinds + 1
    /\ UNCHANGED nonTVVars

\* scope.bind_class_tvar(name, tvar_expr)
BindClassTvar(tvar_expr) ==
    /\ tvBinds < MaxBinds
    /\ \E out \in {bind_class_tvar(tvScope, tvar_expr.name, tvar_expr)} :
          /\ tvScope' = out
          /\ tvBound' = [kind |-> "class", def |-> out.scope[tvar_expr.fullname]]
    /\ tvBinds' = tvBinds + 1
    /\ UNCHANGED nonTVVars

\* TypeVarScope(scope): the analysis goes on in a child of the scope in use.
NewChildScope ==
    /\ Depth(tvScope) < MaxDepth
    /\ tvScope' = TypeVarScope(tvScope)
    /\ UNCHANGED <<tvBound, tvBinds>>
    /\ UNCHANGED nonTVVars

\* ancestor.bind_fun_tvar(name, tvar_expr) or ancestor.bind_class_tvar(name,
\* tvar_expr), on a scope that the scope in use has as parent or grandparent:
\* the enclosing scope binds a variable while the child is alive.
BindInAncestor(up, kind, tvar_expr) ==
    /\ tvBinds < MaxBinds
    /\ up < Depth(tvScope)
    /\ \E out \in {bind_in_ancestor(tvScope, up, kind, tvar_expr)} :
          /\ tvScope' = out
          /\ tvBound' = [kind |-> "ancestor_" \o kind,
                         def |-> Ancestor(out, up).scope[tvar_expr.fullname]]
    /\ tvBinds' = tvBinds + 1
    /\ UNCHANGED nonTVVars

TVNext ==
    \/ \E tvar_expr \in TypeVarExprs : BindFunTvar(tvar_expr)
    \/ \E tvar_expr \in TypeVarExprs : BindClassTvar(tvar_expr)
    \/ NewChildScope
    \/ \E up \in 1..MaxDepth, kind \in {"fun", "class"}, tvar_expr \in TypeVarExprs :
          BindInAncestor(up, kind, tvar_expr)

----------------------------------------------------------------------------
(* The singledispatch plugin: mypy/plugins/singledispatch.py *)

MaxSites == 2
MaxHookCalls == 4

SINGLEDISPATCH_TYPE == "functools._SingleDispatchCallable"
METADATA_KEY == "singledispatch"

\* A CallableType: the function's name, arguments and return type.
SDCallable(name, arg_types, arg_kinds, ret_type) ==
    [t |-> "CallableType", name |-> name, arg_types |-> arg_types,
     arg_kinds |-> arg_kinds, ret_type |-> ret_type]

\* The functions given to singledispatch: def show(arg: object) -> str,
\* def size(arg: int) -> int, def none() -> None, def named(*, arg: int) -> None.
FallbackFunctions ==
    { SDCallable("show", <<Instance("builtins.object")>>, <<"ARG_POS">>,
                 Instance("builtins.str")),
      SDCallable("size", <<Instance("builtins.int")>>, <<"ARG_POS">>,
                 Instance("builtins.int")),
      SDCallable("none", <<>>, <<>>, [t |-> "NoneType"]),
      SDCallable("named", <<Instance("builtins.int")>>, <<"ARG_NAMED">>,
                 [t |-> "NoneType"]) }

\* The functions given to register: def _(arg: bool), def _(arg: str), def _().
RegisteredFunctions ==
    { SDCallable("_", <<Instance("builtins.bool")>>, <<"ARG_POS">>, Instance("builtins.str")),
      SDCallable("_", <<Instance("builtins.str")>>, <<"ARG_POS">>, Instance("builtins.str")),
      SDCallable("_", <<>>, <<>>, Instance("builtins.str")) }

\* The classes given to register as its argument.
RegisterTypes == {Instance("builtins.bool"), Instance("builtins.str")}

\* mypy.subtypes.is_subtype on the classes of the program:
\* bool <: int <: object and str <: object.
is_subtype(left, right) ==
    \/ left = right
    \/ right = Instance("builtins.object")
    \/ left = Instance("builtins.bool") /\ right = Instance("builtins.int")

\* ctx.default_return_type of a singledispatch(func) call: an Instance of
\* functools._SingleDispatchCallable; every such Instance has the one TypeInfo
\* of that class as its type.
SingleDispatchCallable(func) ==
    [t |-> "Instance", type |-> SINGLEDISPATCH_TYPE,
     args |-> IF func.t = "CallableType" THEN <<func.ret_type>> ELSE <<>>]

\* None where a type or a signature is expected.
NoCallable == [t |-> "None"]

\* The metadata of a TypeInfo without the key, and with it.
NoMetadata == [some |-> FALSE]
SingledispatchInfo(fallback, registered) ==
    [some |-> TRUE, fallback |-> fallback, registered |-> registered]

\* The state of a hook call: the METADATA_KEY entry of the metadata of each
\* TypeInfo, the diagnostics reported, and the exception raised.
SDState(metadata, errs, raised) == [metadata |-> metadata, errs |-> errs, raised |-> raised]

\* get_singledispatch_info(typ): typ.type.metadata[METADATA_KEY]
get_singledispatch_info(typ, metadata) == metadata[typ.type]

\* create_singledispatch_function_callback
create_singledispatch_function_callback(func_type, st) ==
    IF func_type.t = "CallableType"
    THEN IF Len(func_type.arg_kinds) < 1
         THEN [st EXCEPT !.errs =
                  Append(@, "Singledispatch function requires at least one argument")]
         ELSE IF func_type.arg_kinds[1] \notin {"ARG_POS", "ARG_OPT", "ARG_STAR"}
         THEN [st EXCEPT !.errs = Append(@,
                  "First argument to singledispatch function must be a positional argument")]
         ELSE [st EXCEPT !.metadata[SingleDispatchCallable(func_type).type] =
                             SingledispatchInfo(func_type, EmptyTable)]
    ELSE st

\* get_dispatch_type; register_arg is NoCallable for None.
get_dispatch_type(func, register_arg) ==
    IF register_arg /= NoCallable THEN register_arg
    ELSE IF func.arg_types /= <<>> THEN func.arg_types[1]
    ELSE NoCallable

\* register_function
register_function(singledispatch_obj, func, register_arg, st) ==
    IF func.t /= "CallableType" THEN st
    ELSE IF ~get_singledispatch_info(singledispatch_obj, st.metadata).some
    THEN [st EXCEPT !.raised = "KeyError"]
    ELSE IF get_dispatch_type(func, register_arg) = NoCallable THEN st
    ELSE LET metadata == get_singledispatch_info(singledispatch_obj, st.metadata)
             dispatch_type == get_dispatch_type(func, register_arg)
             fallback_dispatch_type == metadata.fallback.arg_types[1]
         IN  IF ~is_subtype(dispatch_type, fallback_dispatch_type)
             THEN [st EXCEPT !.errs = Append(@,
                      <<"Dispatch type must be subtype of fallback function first argument",
                        dispatch_type.name, fallback_dispatch_type.name>>)]
             ELSE [st EXCEPT !.metadata[singledispatch_obj.type].registered =
                                 Put(@, dispatch_type, func)]

\* call_singledispatch_function_callback on an Instance: the signature, or
\* NoCallable with the exception raised.
call_singledispatch_function_callback(typ, st) ==
    IF ~get_singledispatch_info(typ, st.metadata).some
    THEN [signature |-> NoCallable, raised |-> "KeyError"]
    ELSE [signature |-> get_singledispatch_info(typ, st.metadata).fallback,
          raised |-> NoError]

NoHookCall == [hook |-> "None"]

SDIdle ==
    /\ sdSites = <<>>
    /\ sdMetadata = [info \in {SINGLEDISPATCH_TYPE} |-> NoMetadata]
    /\ sdCall = NoHookCall
    /\ sdErrors = <<>>
    /\ sdSteps = 0

SDInit == SDIdle

\* The hook for functools.singledispatch at a new call site singledispatch(func).
CreateDispatcher(func) ==
    /\ sdSteps < MaxHookCalls
    /\ Len(sdSites) < MaxSites
    /\ \E out \in {create_singledispatch_function_callback(
                        func, SDState(sdMetadata, <<>>, NoError))} :
          /\ sdMetadata' = out.metadata
          /\ sdErrors' = sdErrors \o out.errs
          /\ sdSites' = Append(sdSites, [func |-> func, obj |-> SingleDispatchCallable(func)])
          /\ sdCall' = [hook |-> "singledispatch", site |-> Len(sdSites) + 1,
                        result |-> SingleDispatchCallable(func), raised |-> NoError]
    /\ sdSteps' = sdSteps + 1
    /\ UNCHANGED nonSDVars

\* singledispatch_register_callback for @site.register applied to a function.
Register(site, func) ==
    /\ sdSteps < MaxHookCalls
    /\ site \in 1..Len(sdSites)
    /\ \E out \in {register_function(sdSites[site].obj, func, NoCallable,
                                       SDState(sdMetadata, <<>>, NoError))} :
          /\ sdMetadata' = out.metadata
          /\ sdErrors' = sdErrors \o out.errs
          /\ sdCall' = [hook |-> "register", site |-> site, result |-> NoCallable,
                        raised |-> out.raised]
    /\ sdSteps' = sdSteps + 1
    /\ UNCHANGED sdSites
    /\ UNCHANGED nonSDVars

\* call_singledispatch_function_after_register_argument for
\* @site.register(register_type) applied to a function: the register callable
\* carries the pair (register_type, the dispatcher) as its type arguments.
RegisterAfterArgument(site, register_type, func) ==
    /\ sdSteps < MaxHookCalls
    /\ site \in 1..Len(sdSites)
    /\ \E type_args \in {[register_type |-> register_type,
                           singledispatch_obj |-> sdSites[site].obj]} :
       \E out \in {register_function(type_args.singledispatch_obj, func,
                                     type_args.register_type,
                                     SDState(sdMetadata, <<>>, NoError))} :
          /\ sdMetadata' = out.metadata
          /\ sdErrors' = sdErrors \o out.errs
          /\ sdCall' = [hook |-> "register", site |-> site, result |-> NoCallable,
                        raised |-> out.raised]
    /\ sdSteps' = sdSteps + 1
    /\ UNCHANGED sdSites
    /\ UNCHANGED nonSDVars

\* call_singledispatch_function_callback for a call of the dispatcher of a site.
CallDispatcher(site) ==
    /\ sdSteps < MaxHookCalls
    /\ site \in 1..Len(sdSites)
    /\ \E out \in {call_singledispatch_function_callback(
                        sdSites[site].obj, SDState(sdMetadata, <<>>, NoError))} :
          sdCall' = [hook |-> "__call__", site |-> site, result |-> out.signature,
                     raised |-> out.raised]
    /\ sdSteps' = sdSteps + 1
    /\ UNCHANGED <<sdSites, sdMetadata, sdErrors>>
    /\ UNCHANGED nonSDVars

SDNext ==
    \/ \E func \in FallbackFunctions : CreateDispatcher(func)
    \/ \E site \in 1..MaxSites, func \in RegisteredFunctions : Register(site, func)
    \/ \E site \in 1..MaxSites, register_type \in RegisterTypes,
          func \in RegisteredFunctions : RegisterAfterArgument(site, register_type, func)
    \/ \E site \in 1..MaxSites : CallDispatcher(site)

----------------------------------------------------------------------------
(* Bodies of class-style named tuples: save_namedtuple_body in             *)
(* mypy/semanal_namedtuple.py                                              *)

MaxDeclarations == 3

NAMEDTUPLE_PROHIBITED_NAMES ==
    <<"__new__", "__init__", "__slots__", "__getnewargs__", "_fields", "_field_defaults",
      "_field_types", "_make", "_replace", "_asdict", "_source", "__annotations__">>

\* A symbol table entry: the class of its node, plugin_generated, and who
\* created the object.  Two entries are the same object (Python's "is") when
\* they are equal: an entry the class body creates differs in by from every
\* entry of build_namedtuple_typeinfo.
GeneratedEntry(node, plugin_generated) ==
    [node |-> node, plugin_generated |-> plugin_generated, by |-> "build_namedtuple_typeinfo"]
BodyEntry(node) == [node |-> node, plugin_generated |-> FALSE, by |-> "class body"]

\* nt_names.items(): the entries build_namedtuple_typeinfo stores for the
\* fields, in the order it stores them.
generated_items(fields) ==
    [i \in 1..Len(fields) |-> <<fields[i], GeneratedEntry("Var", FALSE)>>]
    \o << <<"_fields", GeneratedEntry("Var", FALSE)>>,
          <<"_field_types", GeneratedEntry("Var", FALSE)>>,
          <<"_field_defaults", GeneratedEntry("Var", FALSE)>>,
          <<"_source", GeneratedEntry("Var", FALSE)>>,
          <<"__annotations__", GeneratedEntry("Var", FALSE)>>,
          <<"__doc__", GeneratedEntry("Var", FALSE)>>,
          <<"_replace", GeneratedEntry("FuncDef", TRUE)>>,
          <<"__new__", GeneratedEntry("FuncDef", TRUE)>>,
          <<"_asdict", GeneratedEntry("FuncDef", TRUE)>>,
          <<"_make", GeneratedEntry("Decorator", TRUE)>>,
          <<"_NT", GeneratedEntry("TypeVarExpr", FALSE)>> >>

\* The keys of a table given as items, in order.
Keys(items) == [i \in 1..Len(items) |-> items[i][1]]

\* The loop over NAMEDTUPLE_PROHIBITED_NAMES, from the i-th name on: the
\* diagnostics it reports.
RECURSIVE check_prohibited(_, _, _)
check_prohibited(names, nt_names, i) ==
    IF i > Len(NAMEDTUPLE_PROHIBITED_NAMES) THEN <<>>
    ELSE LET prohibited == NAMEDTUPLE_PROHIBITED_NAMES[i] IN
         (IF /\ Has(names, prohibited)
             /\ ~(Has(nt_names, prohibited) /\ nt_names[prohibited] = names[prohibited])
          THEN <<Diag("Cannot overwrite NamedTuple attribute", prohibited)>>
          ELSE <<>>)
         \o check_prohibited(names, nt_names, i + 1)

\* Mutant of the restoring loop: the entry of the body is overwritten.
RECURSIVE restore_names_overwriting(_, _, _, _)
restore_names_overwriting(names, nt_names, keys, i) ==
    IF i > Len(keys) THEN names
    ELSE LET key == keys[i] IN
         IF Has(names, key) /\ key = "__doc__"
         THEN restore_names_overwriting(names, nt_names, keys, i + 1)
         ELSE IF /\ Has(names, key)
                 /\ names[key].node \in {"FuncDef", "OverloadedFuncDef", "Decorator"}
                 /\ ~names[key].plugin_generated
         THEN restore_names_overwriting(names, nt_names, keys, i + 1)
         ELSE restore_names_overwriting(Put(names, key, nt_names[key]), nt_names, keys, i + 1)

\* The loop over nt_names.items(), from the i-th key on: the table it leaves.
RECURSIVE restore_names(_, _, _, _)
restore_names(names, nt_names, keys, i) ==
    IF i > Len(keys) THEN names
    ELSE LET key == keys[i] IN
         IF Has(names, key) /\ key = "__doc__"
         THEN restore_names(names, nt_names, keys, i + 1)
         ELSE IF /\ Has(names, key)
                 /\ names[key].node \in {"FuncDef", "OverloadedFuncDef", "Decorator"}
                 /\ ~names[key].plugin_generated
         THEN restore_names(names, nt_names, keys, i + 1)
         ELSE IF Has(names, key)
         THEN restore_names(
                  Put(Put(names, get_unique_redefinition_name(key, DOMAIN names), names[key]),
                      key, nt_names[key]),
                  nt_names, keys, i + 1)
         ELSE restore_names(Put(names, key, nt_names[key]), nt_names, keys, i + 1)

\* The class-style definitions: the fields of the named tuple.
FieldLists == {<<>>, <<"x">>, <<"x", "y">>}

\* What the class body may declare: a field again, implicit names, a name the
\* synthesizer does not define, the docstring, a name of its own and the
\* name of an earlier redefinition of x.
DeclaredKeys ==
    {"x", "_fields", "__new__", "_make", "__init__", "__doc__", "helper", "x-redefinition"}

NBIdle ==
    /\ nbNames = EmptyTable
    /\ nbSaved = EmptyTable
    /\ nbErrors = <<>>
    /\ nbPhase = "idle"

\* build_namedtuple_typeinfo has built the TypeInfo of the class.
NBInit ==
    /\ \E fields \in FieldLists : nbNames = PutAll(EmptyTable, generated_items(fields))
    /\ nbSaved = EmptyTable
    /\ nbErrors = <<>>
    /\ nbPhase = "built"

\* save_namedtuple_body up to the yield: the table is set aside and replaced
\* by an empty one.
EnterBody ==
    /\ nbPhase = "built"
    /\ nbSaved' = nbNames
    /\ nbNames' = EmptyTable
    /\ nbPhase' = "body"
    /\ UNCHANGED nbErrors
    /\ UNCHANGED nonNBVars

\* Inside the with block, the analysis of the class body stores an entry for
\* a name: a variable or a method of the body, or the entry that
\* build_namedtuple_typeinfo made for the name.
Declare(key, sym) ==
    /\ nbPhase = "body"
    /\ ~Has(nbNames, key)
    /\ Cardinality(DOMAIN nbNames) < MaxDeclarations
    /\ sym.by = "build_namedtuple_typeinfo" => Has(nbSaved, key) /\ sym = nbSaved[key]
    /\ nbNames' = Put(nbNames, key, sym)
    /\ UNCHANGED <<nbSaved, nbErrors, nbPhase>>
    /\ UNCHANGED nonNBVars

\* save_namedtuple_body after the yield: the prohibited names are reported
\* and the table that was set aside is restored.
ExitBody ==
    /\ nbPhase = "body"
    /\ nbErrors' = nbErrors \o check_prohibited(nbNames, nbSaved, 1)
    /\ \E fields \in FieldLists :
          /\ nbSaved = PutAll(EmptyTable, generated_items(fields))
          /\ nbNames' = restore_names(nbNames, nbSaved, Keys(generated_items(fields)), 1)
    /\ nbPhase' = "restored"
    /\ UNCHANGED nbSaved
    /\ UNCHANGED nonNBVars

NBNext ==
    \/ EnterBody
    \/ \E key \in DeclaredKeys :
          \E sym \in {BodyEntry("Var"), BodyEntry("FuncDef")}
                      \cup {GeneratedEntry(node, generated) :
                                node \in {"Var", "FuncDef", "Decorator"},
                                generated \in BOOLEAN} :
              Declare(key, sym)
    \/ ExitBody

----------------------------------------------------------------------------
(* Specifications *)

InitPlugin == PluginInit /\ NTIdle /\ DCIdle /\ StripIdle /\ TVIdle /\ SDIdle /\ NBIdle
SpecPlugin == InitPlugin /\ [][PluginNext]_vars

InitNT == NTInit /\ PluginInit /\ DCIdle /\ StripIdle /\ TVIdle /\ SDIdle /\ NBIdle
SpecNT == InitNT /\ [][NTNext]_vars

InitDC == DCInit /\ PluginInit /\ NTIdle /\ StripIdle /\ TVIdle /\ SDIdle /\ NBIdle
SpecDC == InitDC /\ [][DCNext]_vars

InitStrip == StripInit /\ PluginInit /\ NTIdle /\ DCIdle /\ TVIdle /\ SDIdle /\ NBIdle
SpecStrip == InitStrip /\ [][StripNext]_vars

InitTV == TVInit /\ PluginInit /\ NTIdle /\ DCIdle /\ StripIdle /\ SDIdle /\ NBIdle
SpecTV == InitTV /\ [][TVNext]_vars

InitSD == SDInit /\ PluginInit /\ NTIdle /\ DCIdle /\ StripIdle /\ TVIdle /\ NBIdle
SpecSD == InitSD /\ [][SDNext]_vars

InitNB == NBInit /\ PluginInit /\ NTIdle /\ DCIdle /\ StripIdle /\ TVIdle /\ SDIdle
SpecNB == InitNB /\ [][NBNext]_vars

----------------------------------------------------------------------------
(* Claims *)

\* The plugins of the chain that hold a hook for the last lookup.
Holders == {i \in 1..Len(plugins) : lookup.fullname \in plugins[i].table[lookup.kind]}

\* C2: every chained get_*_hook lookup returns the hook of the first plugin, in
\* list order, that has one for the fullname, and None when no plugin has one.
C2_FirstPluginWins ==
    lookup /= NoLookup =>
        IF Holders = {}
        THEN lookup.result = NoHook
        ELSE lookup.result = Hook(plugins[Min(Holders)].id, lookup.kind, lookup.fullname)

\* A fullname held by two plugins of the chain was looked up and the earlier
\* one's hook came back, with a plugin without the hook in front of both.
C2_Witness ==
    /\ lookup /= NoLookup
    /\ Cardinality(Holders) = 2
    /\ 1 \notin Holders
    /\ lookup.result.owner = Min(Holders)

\* ---- named tuple claims

\* The pass that has just run on the definition, as the pair check_namedtuple
\* returned: deferred is (typename, None).
DeferredResult(r) == r.typename.some /\ ~r.info.some

\* typename, [(name, type), ...] with a literal name and a two-item tuple for
\* every field.
FieldListCall(call) ==
    /\ call.callee = "typing.NamedTuple"
    /\ call.arg_kinds = <<"ARG_POS", "ARG_POS">>
    /\ call.args[1].node = "StrExpr"
    /\ call.args[2].node \in {"ListExpr", "TupleExpr"}
    /\ \A i \in 1..Len(call.args[2].items) :
          /\ call.args[2].items[i].node = "TupleExpr"
          /\ Len(call.args[2].items[i].items) = 2
          /\ call.args[2].items[i].items[1].node = "StrExpr"

\* typename, name=type, ... with field names other than fields and typename.
KeywordFieldsCall(call) ==
    /\ call.callee = "typing.NamedTuple"
    /\ Len(call.args) >= 2
    /\ call.arg_kinds[1] = "ARG_POS"
    /\ call.args[1].node = "StrExpr"
    /\ \A i \in 2..Len(call.args) :
          /\ call.arg_kinds[i] = "ARG_NAMED"
          /\ call.arg_names[i] \notin {SomeStr(S_fields), SomeStr(S_typename)}

\* The type expressions the fields of such a call declare, in order.
DeclaredTypeNodes(call) ==
    IF FieldListCall(call)
    THEN [i \in 1..Len(call.args[2].items) |-> call.args[2].items[i].items[2]]
    ELSE IF KeywordFieldsCall(call)
    THEN [i \in 1..(Len(call.args) - 1) |-> call.args[i + 1]]
    ELSE <<>>

\* A declared field type names a sibling that is not complete under ready.
UsesUnready(call, ready) ==
    \E i \in 1..Len(DeclaredTypeNodes(call)) :
        /\ DeclaredTypeNodes(call)[i].node = "NameExpr"
        /\ DeclaredTypeNodes(call)[i].name \in ForwardTypes \ ready

\* The step is one analysis pass over the definition.
PassStep == passes' = passes + 1

\* namedtuple(typename, [names...], ...) with literal names, a literal tuple of
\* defaults if any, and a typename that cannot clash with the variable name.
NameListCall(d) ==
    /\ d.call.callee = "collections.namedtuple"
    /\ Len(d.call.args) >= 2
    /\ d.call.arg_kinds[1] = "ARG_POS" /\ d.call.arg_kinds[2] = "ARG_POS"
    /\ d.call.args[1].node = "StrExpr"
    /\ d.call.args[2].node \in {"ListExpr", "TupleExpr"}
    /\ \A i \in 1..Len(d.call.args[2].items) : d.call.args[2].items[i].node = "StrExpr"
    /\ \A i \in 3..Len(d.call.args) :
          \/ /\ d.call.arg_names[i] = SomeStr(S_defaults)
             /\ d.call.args[i].node \in {"ListExpr", "TupleExpr"}
          \/ /\ d.call.arg_names[i] = SomeStr(S_rename)
             /\ d.call.args[i] \in {NameExpr("True"), NameExpr("False")}

DeclaredTypename(d) == d.call.args[1].value
DeclaredNames(d) == [i \in 1..Len(d.call.args[2].items) |-> d.call.args[2].items[i].value]
DeclaredDefaults(d) ==
    IF \E i \in 3..Len(d.call.args) : d.call.arg_names[i] = SomeStr(S_defaults)
    THEN d.call.args[CHOOSE i \in 3..Len(d.call.args) :
                        d.call.arg_names[i] = SomeStr(S_defaults)].items
    ELSE <<>>
DeclaredRename(d) ==
    \E i \in 3..Len(d.call.args) :
        d.call.arg_names[i] = SomeStr(S_rename) /\ d.call.args[i] = NameExpr("True")

\* The pass took the call for a valid named tuple: it reported nothing but,
\* possibly, the mismatch of the type name with the variable name.
Accepted ==
    /\ ntResult.info.some
    /\ \A k \in 1..Len(errors) : errors[k].msg = "First argument should be the variable name"

\* The __new__ the returned TypeInfo holds.
NewOf(result) == result.info.val.names[S___new__].node

\* C3: for a valid call-style named tuple with N fields and K <= N defaults, the
\* synthesized __new__ takes the class parameter and then exactly the N fields in
\* declared order; the first N-K are ARG_POS and exactly the last K are ARG_OPT.
C3_NewSignature ==
    (NameListCall(defn) /\ Accepted) =>
        LET N == Len(DeclaredNames(defn))
            K == Len(DeclaredDefaults(defn))
            new == NewOf(ntResult)
        IN  /\ K <= N
            /\ Len(new.arg_names) = N + 1
            /\ new.arg_names[1] = S__cls /\ new.arg_kinds[1] = "ARG_POS"
            /\ ~DeclaredRename(defn) =>
                   \A i \in 1..N : new.arg_names[i + 1] = DeclaredNames(defn)[i]
            /\ \A i \in 1..N :
                   new.arg_kinds[i + 1] = IF i <= N - K THEN "ARG_POS" ELSE "ARG_OPT"

\* Two declared fields and one default: the second field alone is optional.
C3_Witness ==
    /\ NameListCall(defn) /\ Accepted
    /\ DeclaredNames(defn) = <<F_x, F_y>>
    /\ Len(DeclaredDefaults(defn)) = 1
    /\ NewOf(ntResult).arg_names = <<S__cls, F_x, F_y>>
    /\ NewOf(ntResult).arg_kinds = <<"ARG_POS", "ARG_POS", "ARG_OPT">>

\* The number of diagnostics msg reported for name.
Reported(msg, name) == Cardinality({k \in 1..Len(errors) : errors[k] = Diag(msg, name)})

\* The number of positions of names that hold name.
Occurrences(names, name) == Cardinality({i \in 1..Len(names) : names[i] = name})

\* What _validate_fields was given: the type name followed by the field names.
CheckedNames == <<DeclaredTypename(defn)>> \o DeclaredNames(defn)

\* The variable name, if any, is the type name, so that every diagnostic of
\* the pass comes from _validate_fields.
NoNameMismatch == defn.var_name.some => defn.var_name.val = DeclaredTypename(defn)

\* The pass failed: it returned the dummy TypeInfo, with no fields, under the
\* variable's name or namedtuple@<line>.  (A valid named tuple without fields
\* that is assigned to a variable of its name gets the same TypeInfo.)
FailedResult ==
    /\ ntResult.info.some
    /\ ntResult.info.val.metadata.namedtuple.fields = <<>>
    /\ ntResult.typename =
           SomeStr(IF defn.var_name.some THEN defn.var_name.val
                   ELSE S_namedtuple_at \o IntToStr(defn.call.line))

\* C6: with renaming off, _validate_fields reports one diagnostic for every
\* violation (each non-identifier and each keyword among the type name and field
\* names, each field starting with an underscore, each repeated occurrence of a
\* field name, more defaults than fields) and nothing else; it returns None
\* exactly when it reported something, and otherwise the names, types, defaults
\* and type name it was given.
C6_ValidateFieldsReportsAll ==
    (passes > 0 /\ NameListCall(defn) /\ ~DeclaredRename(defn) /\ NoNameMismatch) =>
        LET names == DeclaredNames(defn)
            N == Len(names)
            K == Len(DeclaredDefaults(defn))
        IN  /\ \A name \in Range(CheckedNames) :
                  /\ Reported("Type names and field names must be valid identifiers", name)
                       = IF isidentifier(name) THEN 0 ELSE Occurrences(CheckedNames, name)
                  /\ Reported("Type names and field names cannot be a keyword", name)
                       = IF iskeyword(name) THEN Occurrences(CheckedNames, name) ELSE 0
            /\ \A name \in Range(names) :
                  /\ Reported("Field names cannot start with an underscore", name)
                       = IF startswith_underscore(name) THEN Occurrences(names, name) ELSE 0
                  /\ Reported("Encountered duplicate field name", name)
                       = Occurrences(names, name) - 1
            /\ Reported("Got more default values than field names", <<>>)
                   = IF K > N THEN 1 ELSE 0
            /\ \A k \in 1..Len(errors) :
                  \/ errors[k] = Diag("Got more default values than field names", <<>>)
                  \/ /\ errors[k].name \in Range(CheckedNames)
                     /\ errors[k].msg \in
                            {"Type names and field names must be valid identifiers",
                             "Type names and field names cannot be a keyword",
                             "Field names cannot start with an underscore",
                             "Encountered duplicate field name"}
            /\ errors /= <<>> => FailedResult
            /\ errors = <<>> =>
                  /\ ntResult.typename = SomeStr(DeclaredTypename(defn))
                  /\ ntResult.info.val.metadata.namedtuple.fields = names
                  /\ ntResult.info.val.tuple_type.items =
                         [i \in 1..N |-> AnyType("implementation_artifact")]
                  /\ \A i \in 1..N :
                         NewOf(ntResult).arguments[i + 1].initializer =
                             IF i <= N - K THEN NoExpr
                             ELSE DeclaredDefaults(defn)[i - (N - K)]

\* ['_z', '_z'] with two defaults: both underscore names and the repeated one
\* were reported in the same pass, which failed.
C6_Witness ==
    /\ passes > 0 /\ NameListCall(defn) /\ ~DeclaredRename(defn) /\ NoNameMismatch
    /\ DeclaredNames(defn) = <<F_underscore, F_underscore>>
    /\ Reported("Field names cannot start with an underscore", F_underscore) = 2
    /\ Reported("Encountered duplicate field name", F_underscore) = 1
    /\ FailedResult

\* The TypeInfo the definition gets when every sibling type is complete in the
\* first pass.
ReadyFirstPass == check_namedtuple(defn.call, defn.var_name, defn.is_func_scope, ForwardTypes)

\* Field names, field types and defaults of the TypeInfo of a returned pair.
FieldsOf(result) ==
    [names |-> result.info.val.metadata.namedtuple.fields,
     types |-> result.info.val.tuple_type.items,
     defaults |-> [i \in 2..Len(NewOf(result).arguments) |->
                      NewOf(result).arguments[i].initializer]]

C7_DeferredPassHasNoEffect ==
    [][(PassStep /\ UsesUnready(defn.call, readyTypes)) =>
         /\ ntResult' = [typename |-> SomeStr(defn.call.args[1].value), info |-> NoInfo]
         /\ errors' = errors
         /\ globalNames' = globalNames
         /\ localNames' = localNames
         /\ callAnalyzed' = NoExpr]_vars

\* C8: the deferred outcome is returned only for a definition with a field type
\* that can become ready in a later pass; a field type expression that cannot be
\* translated into a type makes the pass fail with the dummy named tuple, so that
\* no definition is deferred in every pass.
C8_DeferredOnlyWhileUnready ==
    [][(PassStep /\ DeferredResult(ntResult')) => UsesUnready(defn.call, readyTypes)]_vars

\* ---- dataclass claims

\* The class the last transform ran on declares name in its body; the line of
\* that declaration.
DeclaredIn(cls, name) ==
    \E i \in 1..Len(infos[cls].body) :
        infos[cls].body[i].stmt = "AssignmentStmt" /\ infos[cls].body[i].name = name
DeclarationLine(cls, name) ==
    infos[cls].body[CHOOSE i \in 1..Len(infos[cls].body) :
                       /\ infos[cls].body[i].stmt = "AssignmentStmt"
                       /\ infos[cls].body[i].name = name].line

\* The attributes the last collect_attributes found, keyword-only ones last.
Partitioned ==
    SelectSeq(lastTransform.found, LAMBDA a : ~a.kw_only)
        \o SelectSeq(lastTransform.found, LAMBDA a : a.kw_only)

\* The last collect_attributes reported the default-order error for attr at the
\* place the claim names: the attribute's declaration if the class declares it,
\* the class definition otherwise.
OrderErrorReported(attr) ==
    \E k \in 1..Len(lastTransform.errs) :
        lastTransform.errs[k] =
            DCFail("Attributes without a default cannot follow attributes with one",
                   IF DeclaredIn(lastTransform.cls, attr.name)
                   THEN DeclarationLine(lastTransform.cls, attr.name)
                   ELSE infos[lastTransform.cls].line)

\* C4: if a field that is part of __init__, has no default and is not
\* keyword-only comes after a field that is part of __init__ and has a default (in
\* the order with the keyword-only fields last), collect_attributes reports
\* 'Attributes without a default cannot follow attributes with one' for it, at
\* the field's own declaration when the current class declares it; a field that
\* is left out of __init__ is not reported at its declaration.
C4_DefaultOrderReported ==
    lastTransform.collected =>
        /\ \A i \in 1..Len(Partitioned) :
              (/\ Partitioned[i].is_in_init
               /\ ~Partitioned[i].has_default
               /\ ~Partitioned[i].kw_only
               /\ \E j \in 1..(i - 1) :
                      Partitioned[j].has_default /\ Partitioned[j].is_in_init)
              => OrderErrorReported(Partitioned[i])
        /\ \A i \in 1..Len(Partitioned) :
              (~Partitioned[i].is_in_init /\ DeclaredIn(lastTransform.cls, Partitioned[i].name))
              => ~OrderErrorReported(Partitioned[i])

\* C4 as stated: every field without a default that is not keyword-only and
\* comes after a field with a default is reported.
C4_AsStated ==
    lastTransform.collected =>
        \A i \in 1..Len(Partitioned) :
            (/\ ~Partitioned[i].has_default
             /\ ~Partitioned[i].kw_only
             /\ \E j \in 1..(i - 1) : Partitioned[j].has_default)
            => OrderErrorReported(Partitioned[i])

\* A: x: int; y: int = 0 and B(A): z: int, with B transformed: z was reported
\* at its declaration in B.
C4_Witness ==
    /\ lastTransform.cls = "B"
    /\ Len(lastTransform.found) = 3
    /\ lastTransform.found[2].has_default
    /\ lastTransform.found[3].name = "z"
    /\ lastTransform.errs =
           <<DCFail("Attributes without a default cannot follow attributes with one",
                    DeclarationLine("B", "z"))>>

\* The proper ancestors of cls that the transform looks at: info.mro[1:-1].
Ancestors(cls) == SubSeq(infos[cls].mro, 2, Len(infos[cls].mro) - 1)

\* An ancestor of cls carries the dataclass tag but no 'dataclass' metadata.
UnprocessedAncestor(cls) ==
    \E i \in 1..Len(Ancestors(cls)) :
        /\ infos[Ancestors(cls)[i]].metadata.dataclass_tag
        /\ ~infos[Ancestors(cls)[i]].metadata.dataclass.some

\* cls declares an attribute that has no type yet.
UntypedAttribute(cls) ==
    \E name \in DOMAIN infos[cls].names :
        /\ DeclaredIn(cls, name)
        /\ infos[cls].names[name].node.type = UnsetType

\* C9: when an ancestor of the class (MRO without the class and object) carries
\* the dataclass tag but has no 'dataclass' metadata yet, or when a collected
\* attribute has no type yet, transform returns False, adds no member to the
\* class's symbol table or body and leaves the class's metadata as it was.
C9_DeferredTransformSynthesizesNothing ==
    [][\A cls \in {"A", "B", "C", "D"} :
          (/\ transforms' = transforms + 1
           /\ lastTransform'.cls = cls
           /\ UnprocessedAncestor(cls) \/ UntypedAttribute(cls))
          => /\ ~lastTransform'.result
             /\ DOMAIN infos'[cls].names = DOMAIN infos[cls].names
             /\ infos'[cls].body = infos[cls].body
             /\ infos'[cls].metadata = infos[cls].metadata]_vars

\* D was transformed before its ancestors: the call returned False and D has
\* neither metadata nor an __init__.
C9_Witness ==
    /\ lastTransform.cls = "D"
    /\ ~lastTransform.result
    /\ UnprocessedAncestor("D")
    /\ ~infos["D"].metadata.dataclass.some
    /\ "__init__" \notin DOMAIN infos["D"].names

\* The classes whose attributes the last collect_attributes went through, in
\* the order it did: the dataclass ancestors in reverse MRO order, then the class.
CollectionOrder ==
    SelectSeq(Reversed(Ancestors(lastTransform.cls)),
              LAMBDA c : infos[c].metadata.dataclass.some)
        \o <<lastTransform.cls>>

\* The attribute names class c contributes: the ones its metadata records for
\* an ancestor, the ones its body declares for the class itself.
Contributes(c, name) ==
    IF c = lastTransform.cls THEN DeclaredIn(c, name)
    ELSE \E i \in 1..Len(infos[c].metadata.dataclass.attributes) :
             infos[c].metadata.dataclass.attributes[i].name = name

\* The position in CollectionOrder of the first class that contributes name.
FirstContributor(name) ==
    Min({k \in 1..Len(CollectionOrder) : Contributes(CollectionOrder[k], name)})

\* The place of name's declaration in the body of the class transformed last.
DeclarationIndex(name) ==
    CHOOSE i \in 1..Len(infos[lastTransform.cls].body) :
        /\ infos[lastTransform.cls].body[i].stmt = "AssignmentStmt"
        /\ infos[lastTransform.cls].body[i].name = name

\* found_attrs lists every name once, ancestors' attributes first and in the
\* order of their first declaration, then the new declarations of the class in
\* source order.
FirstDeclarationOrder ==
    /\ \A p, q \in 1..Len(lastTransform.found) :
          lastTransform.found[p].name = lastTransform.found[q].name => p = q
    /\ \A p \in 1..Len(lastTransform.found) :
          \E k \in 1..Len(CollectionOrder) :
              Contributes(CollectionOrder[k], lastTransform.found[p].name)
    /\ \A p, q \in 1..Len(lastTransform.found) :
          p < q =>
              /\ FirstContributor(lastTransform.found[p].name)
                    <= FirstContributor(lastTransform.found[q].name)
              /\ (FirstContributor(lastTransform.found[p].name) = Len(CollectionOrder)
                  /\ FirstContributor(lastTransform.found[q].name) = Len(CollectionOrder))
                 => DeclarationIndex(lastTransform.found[p].name)
                        < DeclarationIndex(lastTransform.found[q].name)

\* The dataclasses of the MRO of the class transformed last that declare name
\* in their own body, as positions of the MRO: 1 is the class itself.
Declarers(name) ==
    {k \in 1..(Len(infos[lastTransform.cls].mro) - 1) :
        /\ k = 1 \/ infos[infos[lastTransform.cls].mro[k]].metadata.dataclass.some
        /\ DeclaredIn(infos[lastTransform.cls].mro[k], name)}

\* attr is the declaration of its name in the most derived class declaring it:
\* it has the line and the type of that declaration (an init-only variable has
\* left the table by the end of the transform, so its type is not compared).
MostDerivedDeclaration(attr) ==
    LET c == infos[lastTransform.cls].mro[Min(Declarers(attr.name))]
    IN  /\ attr.line = DeclarationLine(c, attr.name)
        /\ attr.info = c \/ c /= lastTransform.cls
        /\ attr.is_init_var \/ infos[c].names[attr.name].node.type = attr.type

\* attr is what the last class of CollectionOrder that contributes its name
\* has for it: the class's own declaration, or the ancestor's metadata entry.
LastContribution(attr) ==
    LET c == CollectionOrder[CHOOSE k \in 1..Len(CollectionOrder) :
                 /\ Contributes(CollectionOrder[k], attr.name)
                 /\ \A m \in (k + 1)..Len(CollectionOrder) :
                        ~Contributes(CollectionOrder[m], attr.name)]
    IN  /\ attr.info = c
        /\ IF c = lastTransform.cls
           THEN /\ attr.line = DeclarationLine(c, attr.name)
                /\ attr.is_init_var \/ attr.type = infos[c].names[attr.name].node.type
           ELSE \E i \in 1..Len(infos[c].metadata.dataclass.attributes) :
                    infos[c].metadata.dataclass.attributes[i] =
                        [name |-> attr.name, is_in_init |-> attr.is_in_init,
                         is_init_var |-> attr.is_init_var, has_default |-> attr.has_default,
                         line |-> attr.line, type |-> attr.type, kw_only |-> attr.kw_only]

\* Every class of the MRO of the class transformed last has, as its own MRO,
\* the rest of that MRO: the hierarchy is a single-inheritance chain.
SingleInheritance ==
    \A k \in 1..Len(infos[lastTransform.cls].mro) :
        infos[infos[lastTransform.cls].mro[k]].mro =
            SubSeq(infos[lastTransform.cls].mro, k, Len(infos[lastTransform.cls].mro))

\* C10: before the keyword-only partitioning, collect_attributes lists the
\* attributes ancestors first (reverse MRO), then the class's own declarations
\* in source order; a name declared again appears once, at the position of its
\* first declaration, carrying what the last class in reverse MRO order that
\* lists the name records for it, which along a single-inheritance chain is the
\* most derived declaration.
C10_AttributeOrder ==
    lastTransform.collected =>
        /\ FirstDeclarationOrder
        /\ \A p \in 1..Len(lastTransform.found) : LastContribution(lastTransform.found[p])
        /\ SingleInheritance =>
               \A p \in 1..Len(lastTransform.found) :
                   MostDerivedDeclaration(lastTransform.found[p])

\* C10 as stated: in every hierarchy a name declared again carries the most
\* derived declaration's type and flags.
C10_AsStated ==
    lastTransform.collected =>
        /\ FirstDeclarationOrder
        /\ \A p \in 1..Len(lastTransform.found) :
               MostDerivedDeclaration(lastTransform.found[p])

\* A: x: int; y: int = 0 and D: x: str = '': D's attributes are x, with D's
\* type, and then y.
C10_Witness ==
    /\ lastTransform.cls = "D"
    /\ lastTransform.collected
    /\ Len(lastTransform.found) = 2
    /\ lastTransform.found[1].name = "x"
    /\ lastTransform.found[1].type = Instance("builtins.str")
    /\ lastTransform.found[1].line = DeclarationLine("D", "x")
    /\ lastTransform.found[2].name = "y"

\* The types the analysis has assigned in an AST: the type of each assignment
\* and function, and of the variable of each decorated function.
TypeAssignment(ast) ==
    [id \in {i \in DOMAIN ast : ast[i].n \in {"AssignmentStmt", "FuncDef", "Decorator"}} |->
        IF ast[id].n = "Decorator" THEN ast[id].var_type ELSE ast[id].type]

\* The step that analyses again the one target stripped since the file was
\* fully analysed.
AnalysedAgain ==
    /\ stripError = NoError
    /\ analysed.full
    /\ stripCount = analysed.count + 1
    /\ pending = <<analysed.target>>
    /\ pending' = <<>>

Children(ast, id) ==
    CASE ast[id].n = "MypyFile" -> Range(ast[id].defs)
      [] ast[id].n = "ClassDef" ->
             Range(ast[id].base_type_exprs) \cup Range(ast[id].removed_base_type_exprs)
                 \cup Range(ast[id].defs)
      [] ast[id].n = "FuncDef" -> Range(ast[id].body)
      [] ast[id].n = "Decorator" -> Range(ast[id].decorators) \cup {ast[id].func}
      [] ast[id].n = "OverloadedFuncDef" ->
             Range(ast[id].items) \cup ({ast[id].impl} \ {NoType})
      [] ast[id].n = "AssignmentStmt" -> Range(ast[id].lvalues) \cup {ast[id].rvalue}
      [] ast[id].n = "ExpressionStmt" -> {ast[id].expr}
      [] ast[id].n = "MemberExpr" -> {ast[id].expr}
      [] ast[id].n = "CallExpr" -> {ast[id].callee} \cup Range(ast[id].args)
      [] ast[id].n = "IndexExpr" -> {ast[id].base, ast[id].index}
      [] ast[id].n = "SuperExpr" -> {ast[id].call}
      [] ast[id].n \in {"TupleExpr", "ListExpr"} -> Range(ast[id].items)
      [] ast[id].n = "StarExpr" -> {ast[id].expr}
      [] OTHER -> {}

RECURSIVE Subtree(_, _)
Subtree(ast, id) == {id} \cup UNION {Subtree(ast, c) : c \in Children(ast, id)}

\* The function definitions, the methods among them, and the overloaded
\* groups of the file, with every node inside them.
FunctionNodes(ast) ==
    UNION {Subtree(ast, id) :
              id \in {i \in DOMAIN ast : ast[i].n \in {"FuncDef", "OverloadedFuncDef"}}}

\* A step that strips the given target.
Strips(node) == stripCount' = stripCount + 1 /\ pending' = Append(pending, node)

\* C11: strip_target on the module leaves every function, every method of a
\* top-level class and every overloaded group as it was: the signature, the
\* expansion cache, the overload items and every node of the bodies.
C11_ModuleStripKeepsFunctions ==
    [][Strips("file") => \A id \in FunctionNodes(tree) : tree'[id] = tree[id]]_vars

\* The module of a fully analysed file has been stripped: the class is reset,
\* the decorated function has lost its type, and the functions are analysed.
C11_Witness ==
    /\ pending = <<"file">>
    /\ stripCount = 1
    /\ stripError = NoError
    /\ typeInfos["C"].mro = <<>>
    /\ tree["d"].var_type = UnsetType
    /\ tree["C.m"].type /= tree["C.m"].unanalyzed_type
    /\ tree["o"].impl = "o.impl"
    /\ tree["C.m.1.lv"].is_new_def


\* The class definitions a strip of the target visits: the ones outside
\* functions for the module, the ones inside the function otherwise.
VisitedClasses(node) ==
    IF node = "file"
    THEN {c \in DOMAIN tree : tree[c].n = "ClassDef" /\ c \notin FunctionNodes(tree)}
    ELSE {c \in Subtree(tree, node) : tree[c].n = "ClassDef"}

\* The methods of a class definition.
Methods(c) == {m \in Range(tree[c].defs) : tree[m].n = "FuncDef"}

\* After the step the computed fields of the class are cleared and its type
\* variables are the declared ones.
ComputedFieldsCleared(c) ==
    LET info == typeInfos'[tree[c].info]
    IN  /\ info.bases = <<>>
        /\ info.mro = <<>>
        /\ info.type_vars = tree[c].type_vars
        /\ info.abstract_attributes = <<>>
        /\ info.tuple_type = UnsetType
        /\ info.typeddict_type = UnsetType
        /\ info.cache = {}
        /\ info.cache_proper = {}
        /\ info.declared_metaclass = UnsetType
        /\ info.metaclass_type = UnsetType

\* The step keeps the entries of the methods in the class's table.
MethodEntriesKept(c) ==
    \A m \in Methods(c) :
        Has(typeInfos[tree[c].info].names, tree[m].name)
            => /\ Has(typeInfos'[tree[c].info].names, tree[m].name)
               /\ typeInfos'[tree[c].info].names[tree[m].name]
                      = typeInfos[tree[c].info].names[tree[m].name]

\* The step leaves the methods of the class as they were, bodies included.
MethodsUnchanged(c) ==
    \A m \in Methods(c) : \A id \in Subtree(tree, m) : tree'[id] = tree[id]

\* The step has reset the methods of the class like any function of the target.
MethodsStripped(c) ==
    \A m \in Methods(c) :
        /\ tree'[m].expanded = <<>>
        /\ tree'[m].type = tree'[m].unanalyzed_type
        /\ tree'[m].type /= UnsetType => tree'[m].type.variables = <<>>
        /\ \A s \in Range(tree[m].body) :
               tree[s].n = "AssignmentStmt" => tree'[s].type = tree[s].unanalyzed_type

FullyAnalysed == pending = <<>> /\ analysed.full /\ stripError = NoError

\* C13 as stated: strip_target on a target that a completed analysis left
\* ends without an assertion failure and without a missing key.
C13_StripNeverRaises ==
    [][\A node \in Targets : FullyAnalysed /\ Strips(node) => stripError' = NoError]_vars


\* ---- dataclass claims: the synthesized __init__

\* The step is a transform of class cls.
TransformStep(cls) == transforms' = transforms + 1 /\ lastTransform'.cls = cls

DataclassNames == {"A", "B", "C", "D"}

\* The __init__ definitions of a class body.
InitFuncs(body) == SelectSeq(body, LAMBDA s : s.stmt = "FuncDef" /\ s.name = "__init__")

\* The three conditions on the class the step transforms: init is requested, at
\* least one attribute was collected, and the table has no __init__ or a
\* plugin-generated one.
InitRequested(cls) ==
    /\ infos[cls].args.init
    /\ lastTransform'.collected /\ lastTransform'.attributes /= <<>>
    /\ \/ "__init__" \notin DOMAIN infos[cls].names
       \/ infos[cls].names["__init__"].plugin_generated

\* The step adds a synthesized __init__ to cls: the entry is a plugin-generated
\* method of the body that takes self and the attributes that are in __init__,
\* and an entry it replaces is kept under a new name.
AddsInit(cls) ==
    /\ "__init__" \in DOMAIN infos'[cls].names
    /\ infos'[cls].names["__init__"].plugin_generated
    /\ infos'[cls].names["__init__"].node.node = "FuncDef"
    /\ infos'[cls].names["__init__"].node \in Range(infos'[cls].body)
    /\ LET in_init == SelectSeq(lastTransform'.attributes, LAMBDA a : a.is_in_init)
       IN  infos'[cls].names["__init__"].node.arg_names =
               <<"self">> \o [i \in 1..Len(in_init) |-> in_init[i].name]
    /\ "__init__" \in DOMAIN infos[cls].names =>
           \E k \in DOMAIN infos'[cls].names \ DOMAIN infos[cls].names :
               infos'[cls].names[k] = infos[cls].names["__init__"]

\* The step leaves the __init__ of cls alone: the entry, the definitions in the
\* body, and no entry is a renamed __init__.
KeepsInit(cls) ==
    /\ "__init__" \in DOMAIN infos'[cls].names <=> "__init__" \in DOMAIN infos[cls].names
    /\ "__init__" \in DOMAIN infos[cls].names =>
           infos'[cls].names["__init__"] = infos[cls].names["__init__"]
    /\ InitFuncs(infos'[cls].body) = InitFuncs(infos[cls].body)
    /\ \A k \in DOMAIN infos'[cls].names \ DOMAIN infos[cls].names :
           ~(/\ infos'[cls].names[k].node.node = "FuncDef"
             /\ infos'[cls].names[k].node.name = "__init__")

\* C14: a transform that completes adds a synthesized __init__ exactly when init
\* is requested, at least one attribute was collected and the table has no
\* __init__ or a plugin-generated one; in every other case, and in a transform
\* that defers, the __init__ of the class is left alone, so that an __init__ the
\* program declares is never replaced, renamed or removed.
C14_SynthesizedInit ==
    [][\A cls \in DataclassNames :
          TransformStep(cls) =>
              IF lastTransform'.result /\ InitRequested(cls)
              THEN AddsInit(cls)
              ELSE KeepsInit(cls)]_vars

\* C14 as stated: whenever the three conditions hold the __init__ is added,
\* whether or not the transform completes.
C14_AsStated ==
    [][\A cls \in DataclassNames :
          TransformStep(cls) => (InitRequested(cls) <=> AddsInit(cls))]_vars

\* B declares its own __init__ and keeps it through a completed transform with
\* attributes and init requested, while A, transformed twice, has its generated
\* __init__ and the replaced one under a new name.
C14_Witness ==
    /\ lastTransform.cls = "B"
    /\ lastTransform.result
    /\ lastTransform.attributes /= <<>>
    /\ infos["B"].args.init
    /\ "__init__" \in DOMAIN infos["B"].names
    /\ ~infos["B"].names["__init__"].plugin_generated
    /\ InitFuncs(infos["B"].body) = <<UserMethod("B", "__init__", 25)>>
    /\ "__init__" \in DOMAIN infos["A"].names
    /\ infos["A"].names["__init__"].plugin_generated
    /\ "__init__-redefinition" \in DOMAIN infos["A"].names


\* ---- dataclass claims: frozen and non-frozen ancestors

FrozenFromNonFrozen == "Cannot inherit frozen dataclass from a non-frozen one"
NonFrozenFromFrozen == "Cannot inherit non-frozen dataclass from a frozen one"

\* Some class of the MRO of cls, without cls itself and object, has recorded
\* dataclass metadata with this value of frozen.
AncestorRecorded(cls, frozen) ==
    \E k \in 2..(Len(infos[cls].mro) - 1) :
        /\ infos[infos[cls].mro[k]].metadata.dataclass.some
        /\ infos[infos[cls].mro[k]].metadata.dataclass.frozen = frozen

\* The transform of the step reports msg, on the line of the class.
TransformReports(cls, msg) ==
    \E i \in 1..Len(lastTransform'.errs) :
        lastTransform'.errs[i] = DCFail(msg, infos[cls].line)

\* C15: a transform that completes reports 'Cannot inherit frozen dataclass from
\* a non-frozen one' exactly when the class is frozen and some dataclass ancestor
\* recorded frozen = False, and 'Cannot inherit non-frozen dataclass from a
\* frozen one' exactly when the class is not frozen and some dataclass ancestor
\* recorded frozen = True; a transform that defers reports neither.
C15_FrozenInheritance ==
    [][\A cls \in DataclassNames :
          TransformStep(cls) =>
              IF lastTransform'.result
              THEN /\ TransformReports(cls, FrozenFromNonFrozen)
                          <=> (infos[cls].args.frozen /\ AncestorRecorded(cls, FALSE))
                   /\ TransformReports(cls, NonFrozenFromFrozen)
                          <=> (~infos[cls].args.frozen /\ AncestorRecorded(cls, TRUE))
              ELSE /\ ~TransformReports(cls, FrozenFromNonFrozen)
                   /\ ~TransformReports(cls, NonFrozenFromFrozen)]_vars

\* C15 as stated: the two equivalences hold for every transform.
C15_AsStated ==
    [][\A cls \in DataclassNames :
          TransformStep(cls) =>
              /\ TransformReports(cls, FrozenFromNonFrozen)
                     <=> (infos[cls].args.frozen /\ AncestorRecorded(cls, FALSE))
              /\ TransformReports(cls, NonFrozenFromFrozen)
                     <=> (~infos[cls].args.frozen /\ AncestorRecorded(cls, TRUE))]_vars

\* A is not frozen and B(A) is frozen: the transform of B has reported the first
\* message, and the transform of D(B, C), which is not frozen, reports the second.
C15_Witness ==
    /\ lastTransform.cls = "D"
    /\ lastTransform.result
    /\ ~infos["D"].args.frozen /\ infos["B"].args.frozen /\ ~infos["A"].args.frozen
    /\ lastTransform.errs = <<DCFail(NonFrozenFromFrozen, infos["D"].line)>>
    /\ \E i \in 1..Len(dcErrors) : dcErrors[i] = DCFail(FrozenFromNonFrozen, infos["B"].line)


\* ---- dataclass claims: frozen attributes

\* The class declares a method of this name in its body.
DeclaresMethod(cls, name) ==
    \E i \in 1..Len(infos[cls].body) :
        /\ infos[cls].body[i].stmt = "FuncDef"
        /\ infos[cls].body[i].name = name
        /\ infos[cls].names[name] = MemberSym(infos[cls].body[i], FALSE)

\* The class's own table has name as a variable that is a read-only property.
ReadOnlyProperty(cls, name) ==
    /\ name \in DOMAIN infos[cls].names
    /\ infos[cls].names[name].node.node = "Var"
    /\ infos[cls].names[name].node.is_property

BindFunStep == tvBinds' = tvBinds + 1 /\ tvBound'.kind = "fun"
BindClassStep == tvBinds' = tvBinds + 1 /\ tvBound'.kind = "class"

\* C18: in any sequence of bind_fun_tvar and bind_class_tvar calls on a scope,
\* created with or without a parent, the id bind_fun_tvar assigns is negative
\* and strictly smaller than the scope's previous function id, the id
\* bind_class_tvar assigns is positive and strictly greater than the scope's
\* previous class id, and each call leaves the other counter unchanged.
C18_TvarIds ==
    [][/\ BindFunStep =>
            /\ tvBound'.def.id < 0
            /\ tvBound'.def.id < tvScope.func_id
            /\ tvScope'.func_id = tvBound'.def.id
            /\ tvScope'.class_id = tvScope.class_id
       /\ BindClassStep =>
            /\ tvBound'.def.id > 0
            /\ tvBound'.def.id > tvScope.class_id
            /\ tvScope'.class_id = tvBound'.def.id
            /\ tvScope'.func_id = tvScope.func_id]_vars

\* A child scope whose parent had bound one function and one class type
\* variable binds a function type variable: its id is -2 and the class counter
\* stays at 1.
C18_Witness ==
    /\ tvScope.parent /= NoScope
    /\ tvScope.parent.func_id = -1 /\ tvScope.parent.class_id = 1
    /\ tvBound.kind = "fun"
    /\ tvBound.def.id = -2
    /\ tvScope.func_id = -2 /\ tvScope.class_id = 1
    /\ DOMAIN tvScope.scope = {"m." \o tvBound.def.name}
    /\ tvScope.scope["m." \o tvBound.def.name] = tvBound.def


\* ---- singledispatch claims

\* The dispatchers whose creation stored a fallback: those of the call sites
\* whose function has a positional first argument.
Dispatchers ==
    {d \in 1..Len(sdSites) :
        /\ sdSites[d].func.arg_kinds /= <<>>
        /\ sdSites[d].func.arg_kinds[1] \in {"ARG_POS", "ARG_OPT", "ARG_STAR"}}

\* The (fallback signature, registered table) state observed for a dispatcher.
Observed(d, metadata) == get_singledispatch_info(sdSites[d].obj, metadata)

\* The step is a hook call of this kind at this call site.
HookStep(hook, site) ==
    sdSteps' = sdSteps + 1 /\ sdCall'.hook = hook /\ sdCall'.site = site

\* C17: each dispatcher has its own (fallback signature, registered table)
\* state: creating another dispatcher, or registering an implementation on
\* another dispatcher, never changes what is observed for a given dispatcher,
\* and calling a dispatcher resolves to the fallback signature of that same
\* dispatcher.
C17_DispatcherState ==
    [][\A d \in Dispatchers :
          /\ HookStep("singledispatch", Len(sdSites) + 1) =>
                 Observed(d, sdMetadata') = Observed(d, sdMetadata)
          /\ \A e \in Dispatchers \ {d} :
                 HookStep("register", e) =>
                     Observed(d, sdMetadata') = Observed(d, sdMetadata)
          /\ HookStep("__call__", d) => sdCall'.result = sdSites[d].func]_vars


\* ---- stripping claims: assignments

\* The member expressions among the lvalue and, for a tuple or a list, its
\* items, at any depth.
RECURSIVE MemberLvalues(_, _)
MemberLvalues(ast, lvalue) ==
    IF ast[lvalue].n = "MemberExpr" THEN {lvalue}
    ELSE IF ast[lvalue].n \in {"TupleExpr", "ListExpr"}
    THEN UNION {MemberLvalues(ast, ast[lvalue].items[i]) : i \in 1..Len(ast[lvalue].items)}
    ELSE {}

\* The assignment statements inside a node.
AssignmentsIn(ast, node) == {id \in Subtree(ast, node) : ast[id].n = "AssignmentStmt"}

\* The attributes a method defines: the names of the member lvalues of its
\* assignments that are marked as new definitions; and with the starred items
\* of the tuples as well.
LvaluesIn(ast, node) == UNION {Range(ast[id].lvalues) : id \in AssignmentsIn(ast, node)}
DefinedThroughSelf(ast, method) ==
    {ast[lv].name : lv \in
        {l \in UNION {MemberLvalues(ast, lvalue) : lvalue \in LvaluesIn(ast, method)} :
            ast[l].is_new_def}}
DefinedInLvalues(ast, method) ==
    {ast[lv].name : lv \in
        {l \in UNION {Subtree(ast, lvalue) : lvalue \in LvaluesIn(ast, method)} :
            ast[l].n = "MemberExpr" /\ ast[l].is_new_def}}

\* The names a class body defines by assignment.
DefinedInClassBody(ast, c) ==
    {ast[lv].name : lv \in
        {l \in UNION {Range(ast[id].lvalues) :
                         id \in {d \in Range(ast[c].defs) : ast[d].n = "AssignmentStmt"}} :
            ast[l].n = "NameExpr" /\ ast[l].kind = MDEF /\ ast[l].is_new_def}}

\* The import and from-import statements of a body that is in the file.
ImportsOf(ast, body) == {id \in Range(body) : ast[id].n \in {"ImportFrom", "Import"}}

\* The names the statement binds.
BoundNames(node) ==
    IF node.n = "ImportFrom"
    THEN {ImportedName(node.names, i) : i \in 1..Len(node.names)}
    ELSE {Initial(ImportedName(node.ids, i)) : i \in 1..Len(node.ids)}

\* The names the imports of a class body bind.
ImportedInClassBody(ast, c) == UNION {BoundNames(ast[id]) : id \in ImportsOf(ast, ast[c].defs)}

\* The two tables agree outside the names.
AgreeOutside(old, new, names) ==
    /\ DOMAIN new \ names = DOMAIN old \ names
    /\ \A k \in DOMAIN new \ names : new[k] = old[k]

\* The table without the entries of the names.
Without(names, removed) == [k \in DOMAIN names \ removed |-> names[k]]

MethodTargets == {"C.m", "C.k"}

\* The strip of a method removes the given attributes from the table of its
\* class, keeps every other entry and every other table, and resets the type
\* of each assignment of the method.
MethodStripRemoves(method, removed) ==
    /\ typeInfos' = [typeInfos EXCEPT ![tree[method].info].names = Without(@, removed)]
    /\ \A id \in AssignmentsIn(tree, method) : tree'[id].type = tree[id].unanalyzed_type

\* C19: after stripping a method of an analysed file, the table of its class
\* has no entry for the attributes whose self.attr lvalue, the lvalue itself or
\* an item of a tuple or list lvalue other than a starred one, was marked as a
\* new definition; every other entry is unchanged; the type of each assignment
\* is its unanalyzed type.  A strip of the module top level takes from a
\* class's table the names its class-body assignments define, and no other
\* entry; the entries its class-body imports bind apart, the others are
\* unchanged.
C19_MethodAttributes ==
    [][/\ \A method \in MethodTargets :
            (FullyAnalysed /\ Strips(method)) =>
                MethodStripRemoves(method, DefinedThroughSelf(tree, method))
       /\ (FullyAnalysed /\ Strips("file")) =>
              /\ DOMAIN typeInfos'["C"].names =
                     DOMAIN typeInfos["C"].names \ DefinedInClassBody(tree, "C")
              /\ AgreeOutside(Without(typeInfos["C"].names, DefinedInClassBody(tree, "C")),
                              typeInfos'["C"].names,
                              ImportedInClassBody(tree, "C"))]_vars

\* C19 as stated: the attribute of every new definition inside the lvalues is
\* removed, and assignments in a class body remove no entry.
C19_AsStated ==
    [][/\ \A method \in MethodTargets :
            (FullyAnalysed /\ Strips(method)) =>
                MethodStripRemoves(method, DefinedInLvalues(tree, method))
       /\ (FullyAnalysed /\ Strips("file")) =>
              DOMAIN typeInfos'["C"].names = DOMAIN typeInfos["C"].names]_vars

\* Method m with self.x = ... and self.x, self.y = t has been stripped: x and y
\* have left the table of C, a and the methods are still there.
C19_Witness ==
    /\ pending = <<"C.m">>
    /\ stripCount = 1
    /\ stripError = NoError
    /\ {"x", "y"} \subseteq DOMAIN analysed.type_infos["C"].names
    /\ DOMAIN typeInfos["C"].names = DOMAIN analysed.type_infos["C"].names \ {"x", "y"}
    /\ {"a", "m", "k"} \subseteq DOMAIN typeInfos["C"].names
    /\ tree["C.m.2.lv"].items = <<"C.m.2.x", "C.m.2.y">>


\* ---- stripping claims: imports

\* The two tables have the same entries, or none, for the names.
SameEntries(old, new, names) ==
    \A name \in names :
        /\ Has(new, name) <=> Has(old, name)
        /\ Has(old, name) => new[name] = old[name]

\* The names the statement binds are reset in the table: those of a from-import
\* to the unbound entry of their target, those of an import to unbound entries.
NamesReset(node, old, new, shared) ==
    IF node.n = "ImportFrom"
    THEN \A i \in 1..Len(node.names) :
            ImportedName(node.names, i) \notin shared =>
                /\ Has(new, ImportedName(node.names, i))
                /\ new[ImportedName(node.names, i)] =
                       Symbol(UNBOUND_IMPORTED, node.id \o "." \o node.names[i][1], FALSE)
    ELSE \A name \in BoundNames(node) \ shared :
            /\ Has(new, name)
            /\ new[name] = [old[name] EXCEPT !.kind = UNBOUND_IMPORTED, !.node = NoType]

\* The statements of the body whose names a strip resets: the reachable ones
\* without alias assignments.
ResettingImports(ast, body) ==
    {id \in ImportsOf(ast, body) : ~ast[id].is_unreachable /\ ast[id].assignments = <<>>}

\* The names that another resetting statement of the body binds as well: their
\* entries hold what the last of the statements put there.
SharedNames(id, body) ==
    UNION {BoundNames(tree[o]) : o \in ResettingImports(tree, body) \ {id}}

\* The entries of the names are unbound.
Unbound(new, names) ==
    \A name \in names : Has(new, name) /\ new[name].kind = UNBOUND_IMPORTED

\* What the strip does with the statement id of the body whose active table
\* goes from old to new: nothing when it is unreachable; when it is reachable,
\* the alias assignments are cleared when there are some, and otherwise the
\* names are reset in the table.
ImportStripped(id, body, old, new) ==
    IF tree[id].is_unreachable
    THEN /\ tree'[id] = tree[id]
         /\ SameEntries(old, new, BoundNames(tree[id]) \ SharedNames(id, body))
    ELSE IF tree[id].assignments /= <<>>
    THEN /\ tree'[id] = [tree[id] EXCEPT !.assignments = <<>>]
         /\ SameEntries(old, new, BoundNames(tree[id]) \ SharedNames(id, body))
    ELSE /\ tree'[id] = tree[id]
         /\ NamesReset(tree[id], old, new, SharedNames(id, body))
         /\ Unbound(new, BoundNames(tree[id]))

InferredDefs(ast, method) ==
    {id \in Subtree(ast, method) : ast[id].n = "MemberExpr" /\ ast[id].is_inferred_def}

\* A class later in the MRO of the class defines the name.
DefinedByLaterClass(types, cls, name) ==
    \E i \in 2..Len(types[cls].mro) : info_get(types, types[cls].mro[i], name)

\* The member expression is a duplicate definition when the strip of the
\* method visits it: the analysis marked it as an inferred definition, the
\* class has an entry for its name that the rule for the assignments of the
\* method has not removed, and a later class of the MRO defines the name.
DuplicateWhenVisited(method, id) ==
    /\ id \in InferredDefs(tree, method)
    /\ Has(typeInfos[tree[method].info].names, tree[id].name)
    /\ tree[id].name \notin DefinedThroughSelf(tree, method)
    /\ DefinedByLaterClass(typeInfos, tree[method].info, tree[id].name)

\* C21: when the strip of a method of an analysed file visits a member
\* expression that is a duplicate definition, the entry of its name is removed
\* from the table of the class and the expression's def_var is cleared.
C21_DuplicateAttributeDef ==
    [][\A method \in MethodTargets :
          (FullyAnalysed /\ Strips(method)) =>
              \A id \in Subtree(tree, method) :
                  DuplicateWhenVisited(method, id) =>
                      /\ ~Has(typeInfos'[tree[method].info].names, tree[id].name)
                      /\ tree'[id].def_var = NoType]_vars


\* ---- named tuple claims: the order of the diagnostics

\* The rule a diagnostic of _validate_fields belongs to, in the order of the
\* rules: identifiers and keywords, leading underscores, duplicates, defaults.
RuleOf(diag) ==
    CASE diag.msg \in {"Type names and field names must be valid identifiers",
                       "Type names and field names cannot be a keyword"} -> 1
      [] diag.msg = "Field names cannot start with an underscore" -> 2
      [] diag.msg = "Encountered duplicate field name" -> 3
      [] diag.msg = "Got more default values than field names" -> 4
      [] OTHER -> 0

\* The loop that reports a diagnostic: the loop over the type name and the
\* fields, the loop over the fields, the test of the defaults.
LoopOf(diag) == IF RuleOf(diag) = 3 THEN 2 ELSE IF RuleOf(diag) = 4 THEN 3 ELSE RuleOf(diag)

\* The diagnostics are in the order of key.
InOrderOf(key(_), diags) ==
    \A i, j \in 1..Len(diags) : i < j => key(diags[i]) <= key(diags[j])

\* What the loop over the type name and the fields reports for names[i..]:
\* per name, not an identifier and then keyword.
RECURSIVE ExpectedNameDiags(_, _)
ExpectedNameDiags(names, i) ==
    IF i > Len(names) THEN <<>>
    ELSE (IF isidentifier(names[i]) THEN <<>>
          ELSE <<Diag("Type names and field names must be valid identifiers", names[i])>>)
         \o (IF iskeyword(names[i])
             THEN <<Diag("Type names and field names cannot be a keyword", names[i])>>
             ELSE <<>>)
         \o ExpectedNameDiags(names, i + 1)

\* What the loop over the fields reports for names[i..], renaming off: per
\* field, the leading underscore and then the repetition of an earlier field.
RECURSIVE ExpectedFieldDiags(_, _)
ExpectedFieldDiags(names, i) ==
    IF i > Len(names) THEN <<>>
    ELSE (IF Head(names[i]) = "_"
          THEN <<Diag("Field names cannot start with an underscore", names[i])>>
          ELSE <<>>)
         \o (IF names[i] \in {names[j] : j \in 1..(i - 1)}
             THEN <<Diag("Encountered duplicate field name", names[i])>>
             ELSE <<>>)
         \o ExpectedFieldDiags(names, i + 1)

\* The pass validated a literal list of names and every diagnostic comes from
\* _validate_fields.
ValidatedNameList == passes > 0 /\ NameListCall(defn) /\ NoNameMismatch

\* C22: the diagnostics of one validation come loop by loop: first those of
\* identifiers and keywords, for the type name and then the fields in declared
\* order; then those of the fields, field by field in declared order, the
\* leading underscore of a field before its repetition of an earlier field;
\* then the one for too many defaults.
C22_DiagnosticOrder ==
    ValidatedNameList =>
        /\ InOrderOf(LoopOf, errors)
        /\ \A k \in 1..Len(errors) : RuleOf(errors[k]) /= 0
        /\ ~DeclaredRename(defn) =>
              /\ SelectSeq(errors, LAMBDA d : LoopOf(d) = 1) =
                     ExpectedNameDiags(CheckedNames, 1)
              /\ SelectSeq(errors, LAMBDA d : LoopOf(d) = 2) =
                     ExpectedFieldDiags(DeclaredNames(defn), 1)

\* C22 as stated: every leading-underscore diagnostic comes before every
\* duplicate-name diagnostic.
C22_AsStated == ValidatedNameList => InOrderOf(RuleOf, errors)

\* ['x', 'x', '_z']: the repetition of x was reported before the underscore of
\* _z.
C22_Witness ==
    /\ ValidatedNameList
    /\ DeclaredNames(defn) = <<F_x, F_x, F_underscore>>
    /\ errors = <<Diag("Encountered duplicate field name", F_x),
                  Diag("Field names cannot start with an underscore", F_underscore)>>


\* ---- named tuple claims: renaming

\* The field name at position i (from 1) has to be replaced: it is not an
\* identifier, is a keyword, starts with an underscore or repeats an earlier
\* field name.
NeedsPlaceholder(names, i) ==
    \/ ~isidentifier(names[i])
    \/ iskeyword(names[i])
    \/ Head(names[i]) = "_"
    \/ \E j \in 1..(i - 1) : names[j] = names[i]

\* The field names the TypeInfo of the pass holds.
ResultFields == ntResult.info.val.metadata.namedtuple.fields

\* The pass validated a literal list of names with rename=True.
ValidatedWithRename == ValidatedNameList /\ DeclaredRename(defn)

\* C23: with rename=True, no diagnostic is about a field name: each one is
\* about the type name or the number of defaults, and the validation fails
\* exactly when the type name is not an identifier or is a keyword, or there
\* are more defaults than fields.  When it succeeds, each field name that is
\* not an identifier, is a keyword, starts with an underscore or repeats an
\* earlier one is replaced by '_<index>', index from 0, every other name is
\* kept, and the resulting names are pairwise distinct identifiers that are
\* not keywords.
C23_Rename ==
    ValidatedWithRename =>
        LET names == DeclaredNames(defn)
            typename == DeclaredTypename(defn)
        IN  /\ \A k \in 1..Len(errors) :
                  \/ errors[k] = Diag("Got more default values than field names", <<>>)
                  \/ /\ RuleOf(errors[k]) = 1
                     /\ errors[k].name = typename
            /\ Reported("Type names and field names must be valid identifiers", typename)
                   = IF isidentifier(typename) THEN 0 ELSE 1
            /\ Reported("Type names and field names cannot be a keyword", typename)
                   = IF iskeyword(typename) THEN 1 ELSE 0
            /\ Reported("Got more default values than field names", <<>>)
                   = IF Len(DeclaredDefaults(defn)) > Len(names) THEN 1 ELSE 0
            /\ errors /= <<>> => FailedResult
            /\ errors = <<>> =>
                  /\ Len(ResultFields) = Len(names)
                  /\ \A i \in 1..Len(names) :
                         ResultFields[i] = IF NeedsPlaceholder(names, i)
                                           THEN <<"_">> \o IntToStr(i - 1)
                                           ELSE names[i]
                  /\ \A i, j \in 1..Len(names) :
                         i /= j => ResultFields[i] /= ResultFields[j]
                  /\ \A i \in 1..Len(names) :
                         isidentifier(ResultFields[i]) /\ ~iskeyword(ResultFields[i])

\* ['if', 'if'] with rename=True: accepted without a diagnostic, with the
\* fields _0 and _1.
C23_Witness ==
    /\ ValidatedWithRename
    /\ DeclaredNames(defn) = <<F_keyword, F_keyword>>
    /\ errors = <<>>
    /\ ResultFields = <<<<"_", "0">>, <<"_", "1">>>>


\* ---- named tuple claims: the synthesized entries

\* The names of the methods, and of the implicit attributes, that
\* build_namedtuple_typeinfo defines.
SynthesizedMethods == {S___new__, S__replace, S__make, S__asdict}
ImplicitAttributes ==
    {S__fields, S__field_types, S__field_defaults, S__source, S___annotations__, S___doc__}

\* The pass built a TypeInfo.
BuiltInfo == passes > 0 /\ ntResult.info.some

\* The table of the TypeInfo the pass built.
BuiltNames == ntResult.info.val.names

\* C24: of the entries build_namedtuple_typeinfo creates, exactly those of the
\* methods __new__, _replace, _make and _asdict have plugin_generated set; the
\* entries of the fields, of the implicit attributes and of the self type
\* variable do not.  All of them are created.
C24_PluginGenerated ==
    BuiltInfo =>
        /\ DOMAIN BuiltNames =
               Range(ResultFields) \cup ImplicitAttributes \cup SynthesizedMethods
                   \cup {SELF_TVAR_NAME}
        /\ \A name \in DOMAIN BuiltNames :
               BuiltNames[name].plugin_generated <=> name \in SynthesizedMethods

\* C24 as stated: every entry of the table has plugin_generated set.
C24_AsStated ==
    BuiltInfo => \A name \in DOMAIN BuiltNames : BuiltNames[name].plugin_generated

\* namedtuple('P', ['x', 'y']): the methods are tagged, the fields x and y, the
\* attribute _fields and the self type variable are not.
C24_Witness ==
    /\ BuiltInfo
    /\ ResultFields = <<F_x, F_y>>
    /\ BuiltNames[S___new__].plugin_generated /\ BuiltNames[S__make].plugin_generated
    /\ ~BuiltNames[F_x].plugin_generated /\ ~BuiltNames[F_y].plugin_generated
    /\ ~BuiltNames[S__fields].plugin_generated
    /\ ~BuiltNames[SELF_TVAR_NAME].plugin_generated


\* ---- named tuple claims: the body of a class-style named tuple

\* The step is the end of the with block of save_namedtuple_body.
ExitStep == nbPhase = "body" /\ nbPhase' = "restored"

\* The body declares the name with an entry that is not the one
\* build_namedtuple_typeinfo made for it.
Redeclared(name) ==
    /\ Has(nbNames, name)
    /\ ~(Has(nbSaved, name) /\ nbSaved[name] = nbNames[name])

\* The entry of the body for the name stays in its place: the docstring, or
\* a method of the body.
KeepsPlace(name) ==
    /\ Has(nbNames, name)
    /\ \/ name = "__doc__"
       \/ /\ nbNames[name].node \in {"FuncDef", "OverloadedFuncDef", "Decorator"}
          /\ ~nbNames[name].plugin_generated

\* The names the body declares that give their place to a synthesized entry.
Displaced == {name \in DOMAIN nbNames \cap DOMAIN nbSaved : ~KeepsPlace(name)}

\* The redefinition names of a name.
RedefinitionNames(name) ==
    {name \o "-redefinition"}
        \cup {name \o "-redefinition" \o IntToString(i) : i \in 2..(MaxDeclarations + 2)}

\* The names the diagnostics of the step are about, in order.
OverwriteDiagnostics ==
    SubSeq(nbErrors', Len(nbErrors) + 1, Len(nbErrors'))

\* C25: at the end of the body of a class-style named tuple, 'Cannot
\* overwrite NamedTuple attribute' is reported once for each name of
\* NAMEDTUPLE_PROHIBITED_NAMES that the body declares with an entry other than
\* the synthesized one, and for no other name (not for __doc__); after the
\* restoration each synthesized entry is under its own name unless the
\* docstring or a method of the body keeps the place, each displaced entry of
\* the body is under a redefinition name that was in neither table, and the
\* other entries of the body are unchanged.
C25_NamedTupleBody ==
    [][ExitStep =>
          /\ \A k \in 1..Len(OverwriteDiagnostics) :
                 OverwriteDiagnostics[k].msg = "Cannot overwrite NamedTuple attribute"
          /\ {OverwriteDiagnostics[k].name : k \in 1..Len(OverwriteDiagnostics)} =
                 {name \in Range(NAMEDTUPLE_PROHIBITED_NAMES) : Redeclared(name)}
          /\ \A j, k \in 1..Len(OverwriteDiagnostics) :
                 j /= k => OverwriteDiagnostics[j] /= OverwriteDiagnostics[k]
          /\ \A name \in DOMAIN nbSaved :
                 /\ Has(nbNames', name)
                 /\ nbNames'[name] = IF KeepsPlace(name) THEN nbNames[name]
                                     ELSE nbSaved[name]
          /\ \A name \in Displaced :
                 \E r \in RedefinitionNames(name) :
                     /\ r \notin DOMAIN nbNames \cup DOMAIN nbSaved
                     /\ Has(nbNames', r)
                     /\ nbNames'[r] = nbNames[name]
          /\ \A name \in DOMAIN nbNames \ DOMAIN nbSaved :
                 Has(nbNames', name) /\ nbNames'[name] = nbNames[name]
          /\ Cardinality(DOMAIN nbNames') =
                 Cardinality(DOMAIN nbNames \cup DOMAIN nbSaved) + Cardinality(Displaced)]_vars

\* The implicit names the synthesizer defines.
SynthesizedImplicitNames ==
    {"_fields", "_field_types", "_field_defaults", "_source", "__annotations__",
     "__doc__", "__new__", "_make", "_replace", "_asdict"}

\* C25 as stated: the diagnostic is reported for each implicit name the
\* synthesizer defines that the body declares again, the docstring included.
C25_AsStated ==
    [][ExitStep =>
          \A name \in SynthesizedImplicitNames :
              Redeclared(name) =>
                  \E k \in 1..Len(OverwriteDiagnostics) :
                      OverwriteDiagnostics[k] =
                          Diag("Cannot overwrite NamedTuple attribute", name)]_vars

\* A body that declares _fields, __doc__ and x-redefinition, for fields x and
\* y: _fields was reported and __doc__ was not, the synthesized _fields is back
\* and the one of the body is under _fields-redefinition, the docstring of the
\* body is in its place.
C25_Witness ==
    /\ nbPhase = "restored"
    /\ nbErrors = <<Diag("Cannot overwrite NamedTuple attribute", "_fields")>>
    /\ nbNames["_fields"] = nbSaved["_fields"]
    /\ Has(nbNames, "_fields-redefinition")
    /\ nbNames["_fields-redefinition"] = BodyEntry("Var")
    /\ nbNames["__doc__"] = BodyEntry("Var")
    /\ Has(nbNames, "x-redefinition") /\ Has(nbNames, "y")


\* ---- dataclass claims: running the transform again

\* The step transforms the class that the previous step transformed.
TransformsAgain(cls) == lastTransform.cls = cls /\ TransformStep(cls)

\* C26: a second transform of a class, right after the first, leaves the
\* symbol table, the body and the dataclass metadata of the class as the first
\* left them.
C26_TransformIdempotent ==
    [][\A cls \in DataclassNames :
          TransformsAgain(cls) =>
              /\ infos'[cls].names = infos[cls].names
              /\ infos'[cls].body = infos[cls].body
              /\ infos'[cls].metadata = infos[cls].metadata]_vars

\* ---- dataclass claims: keyword-only defaults and the order check

\* In the order collect_attributes found the attributes, attribute j is a
\* positional field of __init__ without a default, a keyword-only field of
\* __init__ with a default comes before it, and no positional one does.
AfterKwOnlyDefaultOnly(found, j) ==
    /\ found[j].is_in_init /\ ~found[j].has_default /\ ~found[j].kw_only
    /\ \E i \in 1..(j - 1) :
          found[i].is_in_init /\ found[i].has_default /\ found[i].kw_only
    /\ \A i \in 1..(j - 1) :
          (found[i].is_in_init /\ found[i].has_default) => found[i].kw_only

\* C29: a keyword-only field with a default never has the default-order error
\* reported for a positional field without a default that follows it, whether
\* the class has a dataclass ancestor (and the attributes were re-sorted) or not.
C29_KwOnlyDefaultOrder ==
    lastTransform.collected =>
        \A j \in 1..Len(lastTransform.found) :
            AfterKwOnlyDefaultOnly(lastTransform.found, j)
                => ~OrderErrorReported(lastTransform.found[j])

\* ---- type variable scope claims: the ids seen through get_binding

\* The full names of the type variables of the module.
TypeVarFullnames == {e.fullname : e \in TypeVarExprs}

\* The full names that get_binding finds from the scope in use.
VisibleFrom(self) == {f \in TypeVarFullnames : get_binding(self, f) /= NoTypeVarDef}

\* Two bindings are of the same kind: function ids are negative, class ids
\* positive.
SameKind(d1, d2) == (d1.id < 0) = (d2.id < 0)

\* The bindings seen from self give distinct ids to distinct variables of one kind.
DistinctIds(self) ==
    \A f \in VisibleFrom(self), g \in VisibleFrom(self) :
        (f /= g /\ SameKind(get_binding(self, f), get_binding(self, g)))
            => get_binding(self, f).id /= get_binding(self, g).id

\* C27: the bindings visible from the scope in use, its own and its
\* ancestors', give pairwise distinct ids to distinct type variables of the same
\* kind, also after an ancestor has bound a variable later than the child scope
\* was created.
C27_DistinctIds == DistinctIds(tvScope)

\* ---- strip claims: stripping a target twice

\* The target has been stripped once, out of a completed analysis, and nothing
\* has been analysed or stripped since.
StrippedOnce(node) ==
    /\ pending = <<node>>
    /\ analysed.full /\ analysed.target = node /\ analysed.count = stripCount - 1
    /\ stripError = NoError

\* The target is a group of overloads whose last item is its implementation.
HasImplementation(node) ==
    /\ tree[node].n = "OverloadedFuncDef"
    /\ tree[node].impl /= NoType

\* The names bound by the reachable imports of the module top level that had
\* alias assignments when the first strip began; the first strip of the module
\* only cleared the assignments of these statements.
AliasedNames(node) ==
    IF node /= "file" THEN {}
    ELSE UNION {BoundNames(analysed.tree[id]) :
                  id \in {i \in ImportsOf(analysed.tree, analysed.tree["file"].defs) :
                             /\ ~analysed.tree[i].is_unreachable
                             /\ analysed.tree[i].assignments /= <<>>}}

default_signature(typ) ==
    SDCallable("__call__", <<[t |-> "Any"], [t |-> "Any"]>>, <<"ARG_STAR", "ARG_STAR2">>,
               IF typ.args /= <<>> THEN typ.args[1] ELSE [t |-> "Any"])

\* C30: the hook for a call of a dispatcher never fails: it returns the
\* recorded fallback signature when the dispatcher's type carries recorded
\* state, and the default signature when nothing was recorded.
C30_CallNeverFails ==
    [][\A site \in 1..MaxSites :
          HookStep("__call__", site) =>
              /\ sdCall'.raised = NoError
              /\ sdCall'.result =
                     IF get_singledispatch_info(sdSites[site].obj, sdMetadata).some
                     THEN get_singledispatch_info(sdSites[site].obj, sdMetadata).fallback
                     ELSE default_signature(sdSites[site].obj)]_vars

====
